---- MODULE Spec2Model ----
(***************************************************************************)
(* Job lifecycle and time-accounting engine of the CNC LOG backend         *)
(* (current_appscript.js): submitLog commands, the daily overtime sweep    *)
(* and the pure calendar / normalization / session-ledger functions.       *)
(*                                                                         *)
(* Representation choices                                                  *)
(*  - a string is a sequence of one-character strings; "ZWSP" and "NBSP"   *)
(*    stand for U+200B and U+00A0;                                         *)
(*  - a timestamp is an integer number of milliseconds since Monday 00:00  *)
(*    local time of the first modelled week (an ISO string and the Date    *)
(*    it was made of carry the same milliseconds);                         *)
(*  - a formatted local timestamp 'M/D/YYYY H:mm:ss' is <<day, h, m, s>>   *)
(*    (the day number stands for M/D/YYYY);                                *)
(*  - a formatted duration 'H:MM:SS' is <<h, m, s>>, the empty string is   *)
(*    << >> and the placeholder '-' is <<"-">>;                            *)
(*  - a summary string 'a | b | c' is the sequence of its entries.         *)
(***************************************************************************)
EXTENDS Integers, Sequences, FiniteSets, TLC

\* ------------------------------------------------------------------------
\* Bounds of the model
\* ------------------------------------------------------------------------
MaxRows == 2

\* rows of the sheet plus pause and OT sessions logged in them
MaxSize == 3

MaxClock == 3

\* rows plus sessions of the sheets on which writes are let fail
MaxFailSize == 2

MaxOverlapRows == 1

MaxOverlapSize == 4

MaxOverlapClock == 2

\* requests that overlap another in one behaviour
MaxOverlaps == 1

MaxPairRows == 2

MaxPairSize == 4

MaxPairClock == 2

MaxShiftRows == 1

MaxShiftSize == 2

MaxShiftClock == 4
\* calendar days from which the time calculation functions take their dates
MaxCalendarDays == 3
\* OT sessions in the list handed to the pause time calculation
MaxOtSessions == 2
\* characters of a project number handed to normalizeProjectNo
MaxProjectNoLen == 3
\* rows, rows plus sessions, and clock readings while creates overlap
MaxLogRows == 2
MaxLogSize == 3
MaxLogClock == 1

\* documents that name their command in `action`: rows, rows and sessions,
\* instants
MaxPostRows == 1
MaxPostSize == 3
MaxPostClock == 2

\* a Machine Setting job: rows, rows and sessions, instants
MaxSettingRows == 1
MaxSettingSize == 3
MaxSettingClock == 3

\* pauses of several types: rows, rows and sessions, instants
MaxTypedRows == 1
MaxTypedSize == 3
MaxTypedClock == 4
\* data rows of the Production Summary sheet, edits of it, and readings of
\* the dashboard clock
MaxDashRows == 2
MaxEdits == 2
MaxDashTicks == 5

\* ------------------------------------------------------------------------
\* Constants and configuration (current_appscript.js 66-80)
\* ------------------------------------------------------------------------
MsPerSecond == 1000

MsPerMinute == 60000

MsPerHour == 3600000

MsPerDay == 86400000

HM(h, m) == h * MsPerHour + m * MsPerMinute

WORK_HOURS == [START |-> [h |-> 8, m |-> 30],
               LUNCH_START |-> [h |-> 12, m |-> 0],
               LUNCH_END |-> [h |-> 13, m |-> 0],
               BREAK_START |-> [h |-> 15, m |-> 0],
               BREAK_END |-> [h |-> 15, m |-> 10],
               WORK_END |-> [h |-> 16, m |-> 45]]

OT_HOURS == [START |-> [h |-> 17, m |-> 30], END |-> [h |-> 22, m |-> 30]]

MACHINE_SETTING_WORK_END == [h |-> 22, m |-> 30]

\* an absent timestamp (a property that is not set on a session object)
NoTime == -1

\* an omitted customWorkEnd argument
Undefined == [h |-> -1, m |-> -1]

Max2(a, b) == IF a >= b THEN a ELSE b

Min2(a, b) == IF a <= b THEN a ELSE b

\* ------------------------------------------------------------------------
\* Strings
\* ------------------------------------------------------------------------
Whitespace == {" ", "NBSP"}

Invisible == {"ZWSP", "NBSP"}

\* String.prototype.normalize('NFKC') on the modelled alphabet: U+00A0 is
\* compatibility-equivalent to U+0020, every other modelled character is fixed
NFKC(s) == [i \in 1..Len(s) |-> IF s[i] = "NBSP" THEN " " ELSE s[i]]

\* .replace(/[\u200B-\u200D\uFEFF\u00A0\u202F\u2060\u180E]/g, '')
RemoveInvisible(s) == SelectSeq(s, LAMBDA c : c \notin Invisible)

\* .replace(/\s+/g, ' ')
RECURSIVE CollapseSpaces(_)
CollapseSpaces(s) ==
  IF s = << >> THEN << >>
  ELSE IF Head(s) \in Whitespace
       THEN IF Len(s) > 1 /\ s[2] \in Whitespace
            THEN CollapseSpaces(Tail(s))
            ELSE <<" ">> \o CollapseSpaces(Tail(s))
       ELSE <<Head(s)>> \o CollapseSpaces(Tail(s))

RECURSIVE TrimLeft(_)
TrimLeft(s) ==
  IF s # << >> /\ Head(s) \in Whitespace THEN TrimLeft(Tail(s)) ELSE s

RECURSIVE TrimRight(_)
TrimRight(s) ==
  IF s # << >> /\ s[Len(s)] \in Whitespace
  THEN TrimRight(SubSeq(s, 1, Len(s) - 1)) ELSE s

\* String.prototype.trim
Trim(s) == TrimRight(TrimLeft(s))

LowerChar(c) ==
  CASE c = "A" -> "a" [] c = "B" -> "b" [] c = "I" -> "i" [] c = "L" -> "l"
    [] c = "M" -> "m" [] c = "S" -> "s" [] c = "E" -> "e" [] c = "T" -> "t"
    [] c = "N" -> "n" [] c = "G" -> "g" [] c = "C" -> "c" [] c = "H" -> "h"
    [] OTHER -> c

UpperChar(c) ==
  CASE c = "a" -> "A" [] c = "b" -> "B" [] c = "i" -> "I" [] c = "l" -> "L"
    [] c = "m" -> "M" [] c = "s" -> "S" [] c = "e" -> "E" [] c = "t" -> "T"
    [] c = "n" -> "N" [] c = "g" -> "G" [] c = "c" -> "C" [] c = "h" -> "H"
    [] OTHER -> c

ToLowerCase(s) == [i \in 1..Len(s) |-> LowerChar(s[i])]

ToUpperCase(s) == [i \in 1..Len(s) |-> UpperChar(s[i])]

\* .replace(/^0+/, '')
RECURSIVE StripLeadingZeros(_)
StripLeadingZeros(s) ==
  IF s # << >> /\ Head(s) = "0" THEN StripLeadingZeros(Tail(s)) ELSE s

normalize(str) ==
  ToLowerCase(Trim(CollapseSpaces(RemoveInvisible(NFKC(str)))))

normalizeProjectNo(str) ==
  ToLowerCase(Trim(CollapseSpaces(RemoveInvisible(NFKC(StripLeadingZeros(str))))))

\* ------------------------------------------------------------------------
\* Date and time utilities
\* ------------------------------------------------------------------------
DayOf(t) == t \div MsPerDay

\* Date.prototype.getDay: 0 = Sunday; day 0 of the model is a Monday
getDay(t) == (DayOf(t) + 1) % 7

\* Date.prototype.getDate (the modelled days lie within one month)
getDate(t) == DayOf(t) + 1

\* a calendar without a day off
isEveryDay(date) == getDay(date) >= 0 /\ getDay(date) <= 6

isWorkingDay(date) == getDay(date) >= 1 /\ getDay(date) <= 6

setTime(date, h, m) == DayOf(date) * MsPerDay + HM(h, m)

formatLocalTimestamp(date) ==
  <<getDate(date),
    (date % MsPerDay) \div MsPerHour,
    (date % MsPerHour) \div MsPerMinute,
    (date % MsPerMinute) \div MsPerSecond>>

msToHHMMSS(ms) ==
  IF ms = 0 THEN << >>
  ELSE LET totalSeconds == ms \div MsPerSecond
       IN <<totalSeconds \div 3600, (totalSeconds % 3600) \div 60, totalSeconds % 60>>

msToHHMMSSWithPlaceholder(ms) ==
  IF ms = 0 THEN <<"-">>
  ELSE LET totalSeconds == ms \div MsPerSecond
       IN <<totalSeconds \div 3600, (totalSeconds % 3600) \div 60, totalSeconds % 60>>

\* ------------------------------------------------------------------------
\* Time calculation functions
\* ------------------------------------------------------------------------
\* a window block that counts from the opening of the window, whatever the
\* start of the interval
WindowMsFromOpening(start, end, current, wStart, wEnd) ==
  IF end > wStart /\ start < wEnd
  THEN LET sessionEnd == Min2(end, wEnd)
       IN IF sessionEnd > wStart THEN sessionEnd - wStart ELSE 0
  ELSE 0

\* one "if (end > wStart && start < wEnd) { ... }" block of the day loops
WindowMs(start, end, current, wStart, wEnd) ==
  IF end > wStart /\ start < wEnd
  THEN LET sessionStart == Max2(current, wStart)
           sessionEnd == Min2(end, wEnd)
       IN IF sessionEnd > sessionStart THEN sessionEnd - sessionStart ELSE 0
  ELSE 0

RECURSIVE WorkingLoop(_, _, _, _)
WorkingLoop(start, end, current, workEnd) ==
  IF ~(current < end) THEN 0
  ELSE (IF isWorkingDay(current)
        THEN WindowMs(start, end, current,
                      setTime(current, WORK_HOURS.START.h, WORK_HOURS.START.m),
                      setTime(current, WORK_HOURS.LUNCH_START.h, WORK_HOURS.LUNCH_START.m))
           + WindowMs(start, end, current,
                      setTime(current, WORK_HOURS.LUNCH_END.h, WORK_HOURS.LUNCH_END.m),
                      setTime(current, WORK_HOURS.BREAK_START.h, WORK_HOURS.BREAK_START.m))
           + WindowMs(start, end, current,
                      setTime(current, WORK_HOURS.BREAK_END.h, WORK_HOURS.BREAK_END.m),
                      setTime(current, workEnd.h, workEnd.m))
        ELSE 0)
       + WorkingLoop(start, end,
                     setTime(current + MsPerDay, WORK_HOURS.START.h, WORK_HOURS.START.m),
                     workEnd)

\* customWorkEnd || WORK_HOURS.WORK_END
calculateWorkingTimeMs(start, end, customWorkEnd) ==
  WorkingLoop(start, end, start,
              IF customWorkEnd = Undefined THEN WORK_HOURS.WORK_END ELSE customWorkEnd)

RECURSIVE OtLoop(_, _, _)
OtLoop(start, end, current) ==
  IF ~(current < end) THEN 0
  ELSE (IF isWorkingDay(current)
        THEN WindowMs(start, end, current,
                      setTime(current, OT_HOURS.START.h, OT_HOURS.START.m),
                      setTime(current, OT_HOURS.END.h, OT_HOURS.END.m))
        ELSE 0)
       + OtLoop(start, end,
                setTime(current + MsPerDay, OT_HOURS.START.h, OT_HOURS.START.m))

calculateOtTimeMs(start, end) == OtLoop(start, end, start)

\* ------------------------------------------------------------------------
\* Session ledger
\*   pause session: {type, reason, pause, pause_local, resume, resume_local,
\*                   wasInOT}; resume = NoTime while the pause is open
\*   OT session:    {start, start_local, end, end_local, autoStopped, note};
\*                  end = NoTime while the session is open
\* ------------------------------------------------------------------------
NoLocal == << >>

NewPauseSession(type, reason, t, isOT) ==
  [type |-> type, reason |-> reason, pause |-> t,
   pause_local |-> formatLocalTimestamp(t),
   resume |-> NoTime, resume_local |-> NoLocal, wasInOT |-> isOT]

NewOtSession(t) ==
  [start |-> t, start_local |-> formatLocalTimestamp(t),
   end |-> NoTime, end_local |-> NoLocal, autoStopped |-> FALSE, note |-> ""]

IsOpenPause(p) == p.pause # NoTime /\ p.resume = NoTime

\* a test that takes every started session for an open one
HasStarted(ot) == ot.start # NoTime

IsOpenOt(ot) == ot.start # NoTime /\ ot.end = NoTime

IsClosedOt(ot) == ot.start # NoTime /\ ot.end # NoTime

RECURSIVE SumSeq(_)
SumSeq(s) == IF s = << >> THEN 0 ELSE Head(s) + SumSeq(Tail(s))

\* working-hours pause time plus the OT time of the overlap with every
\* CLOSED logged OT session
calculatePauseTimeWithOTSessions(pauseStart, pauseEnd, otSessions) ==
  calculateWorkingTimeMs(pauseStart, pauseEnd, Undefined)
  + SumSeq([k \in 1..Len(otSessions) |->
              IF IsClosedOt(otSessions[k])
              THEN LET overlapStart == Max2(pauseStart, otSessions[k].start)
                       overlapEnd == Min2(pauseEnd, otSessions[k].end)
                   IN IF overlapEnd > overlapStart
                      THEN calculateOtTimeMs(overlapStart, overlapEnd)
                      ELSE 0
              ELSE 0])

TypeLabel(p) == IF p.type = "DOWNTIME" THEN "Downtime" ELSE "Normal Pause"

\* the entries pushed by the forEach, numbered by counter
RECURSIVE PauseEntries(_, _, _)
PauseEntries(pauseTimes, otSessions, counter) ==
  IF pauseTimes = << >> THEN << >>
  ELSE LET p == Head(pauseTimes)
       IN IF p.pause # NoTime /\ p.resume # NoTime
          THEN << <<counter, TypeLabel(p), p.pause_local, p.resume_local,
                    msToHHMMSS(calculatePauseTimeWithOTSessions(p.pause, p.resume, otSessions)),
                    p.reason>> >>
               \o PauseEntries(Tail(pauseTimes), otSessions, counter + 1)
          ELSE IF p.pause # NoTime /\ p.resume = NoTime
          THEN << <<counter, TypeLabel(p), p.pause_local, <<"active">>, p.reason>> >>
               \o PauseEntries(Tail(pauseTimes), otSessions, counter + 1)
          ELSE PauseEntries(Tail(pauseTimes), otSessions, counter)

formatPauseTimesSummary(pauseTimes, otSessions) ==
  PauseEntries(pauseTimes, otSessions, 1)

sumPauseTypeMs(pauseTimes, type, otSessions) ==
  SumSeq([k \in 1..Len(pauseTimes) |->
            LET p == pauseTimes[k]
            IN IF p.type = type /\ p.pause # NoTime /\ p.resume # NoTime
               THEN calculatePauseTimeWithOTSessions(p.pause, p.resume, otSessions)
               ELSE 0])

\* a total that keeps the duration of the latest session only
LatestPauseTimeOnly(pauseTimes, otSessions) ==
  IF pauseTimes # << >> /\ pauseTimes[Len(pauseTimes)].resume # NoTime
  THEN calculatePauseTimeWithOTSessions(pauseTimes[Len(pauseTimes)].pause,
                                        pauseTimes[Len(pauseTimes)].resume, otSessions)
  ELSE 0

calculateTotalPauseTimeWithOTSessions(pauseTimes, otSessions) ==
  SumSeq([k \in 1..Len(pauseTimes) |->
            LET p == pauseTimes[k]
            IN IF p.pause # NoTime /\ p.resume # NoTime
               THEN calculatePauseTimeWithOTSessions(p.pause, p.resume, otSessions)
               ELSE 0])

RECURSIVE ReasonEntries(_, _)
ReasonEntries(pauseTimes, counter) ==
  IF pauseTimes = << >> THEN << >>
  ELSE LET p == Head(pauseTimes)
       IN IF Trim(p.reason) # << >>
          THEN << <<counter, TypeLabel(p), Trim(p.reason)>> >>
               \o ReasonEntries(Tail(pauseTimes), counter + 1)
          ELSE ReasonEntries(Tail(pauseTimes), counter)

formatReasonSummary(pauseTimes) == ReasonEntries(pauseTimes, 1)

RECURSIVE OtEntries(_, _)
OtEntries(otTimes, counter) ==
  IF otTimes = << >> THEN << >>
  ELSE LET ot == Head(otTimes)
       IN IF IsClosedOt(ot)
          THEN << <<counter, ot.start_local, ot.end_local,
                    msToHHMMSS(calculateOtTimeMs(ot.start, ot.end)),
                    ot.autoStopped>> >>
               \o OtEntries(Tail(otTimes), counter + 1)
          ELSE OtEntries(Tail(otTimes), counter)

formatOtTimesSummary(otTimes) == OtEntries(otTimes, 1)

\* "let totalOtMs = 0; for (let ot of otTimes) if (ot.start && ot.end) ..."
TotalOtMs(otTimes) ==
  SumSeq([k \in 1..Len(otTimes) |->
            IF IsClosedOt(otTimes[k])
            THEN calculateOtTimeMs(otTimes[k].start, otTimes[k].end)
            ELSE 0])

\* 22:30 of the day on which the session started
OtEndOf(ot) == setTime(ot.start, OT_HOURS.END.h, OT_HOURS.END.m)

\* whether an open session is closed by the auto-stop at time t
IsStale(ot, t) == t > OtEndOf(ot) \/ getDate(t) # getDate(ot.start)

\* a forced end that is not flagged
AutoStoppedUnflagged(ot) ==
  [ot EXCEPT !.end = OtEndOf(ot),
             !.end_local = formatLocalTimestamp(OtEndOf(ot))]

AutoStopped(ot) ==
  [ot EXCEPT !.end = OtEndOf(ot),
             !.end_local = formatLocalTimestamp(OtEndOf(ot)),
             !.autoStopped = TRUE,
             !.note = "OT stopped automatically at 22:30"]

\* the list autoStopOtSessions leaves behind (it mutates otTimes in place)
autoStopOtSessions(otTimes, t) ==
  [k \in 1..Len(otTimes) |->
     IF IsOpenOt(otTimes[k]) /\ IsStale(otTimes[k], t)
     THEN AutoStopped(otTimes[k]) ELSE otTimes[k]]

\* ------------------------------------------------------------------------
\* Row Store: the data rows of the CNC LOG sheet (header row excluded)
\* ------------------------------------------------------------------------
EmptyCell == << >>

\* a JSON cell: blank is the empty string written by the create command
BlankJson == [blank |-> TRUE, list |-> << >>]

JSONstringify(list) == [blank |-> FALSE, list |-> list]

\* JSON.parse(cell || "[]") and cell ? JSON.parse(cell) : []
JSONparse(cell) == IF cell.blank THEN << >> ELSE cell.list

\* columns 19-25, written by pause and continue
PauseRangeFields ==
  {"status", "pauseSummary", "totalDowntime", "totalNormalPause",
   "totalPauseTime", "pauseJson", "reasonSummary"}

\* columns 13-28, written by close
CloseRangeFields ==
  {"endEmployeeCode", "endTime", "processTime", "fg", "ng", "rework"}
  \cup PauseRangeFields \cup {"otJson", "otSummary", "otDuration"}

\* ------------------------------------------------------------------------
\* Command documents
\* ------------------------------------------------------------------------
Str7 == <<"7">>

Str07 == <<"0", "7">>

StrA == <<"A">>

StrB == <<"B">>

StrCnc == <<"c", "n", "c">>

StrMachineSetting ==
  <<"M", "a", "c", "h", "i", "n", "e", " ", "S", "e", "t", "t", "i", "n", "g">>

Str1 == <<"1">>

Str1a == <<"1", "a">>

Str1A == <<"1", "A">>

StrM1 == <<"M", "1">>

StrE1 == <<"e", "1">>

StrTooling == <<"t", "o", "o", "l">>

StrM2 == <<"M", "2">>

Identity(projectNo, partName, processName, machineNo) ==
  [projectNo |-> projectNo, partName |-> partName, processName |-> processName,
   processNo |-> Str1, stepNo |-> Str1a, machineNo |-> machineNo]

\* job step A on machine M1, the same step with a zero-padded project
\* number, and the step of another part B of the same project
IdA == Identity(Str7, StrA, StrCnc, StrM1)

IdA0 == Identity(Str07, StrA, StrCnc, StrM1)

\* step A with its step number typed in upper case
IdA1 == [IdA EXCEPT !.stepNo = Str1A]

IdB == Identity(Str7, StrB, StrCnc, StrM1)

\* a job step on machine M2, which is never created
IdC == Identity(Str7, StrA, StrCnc, StrM2)

PauseInputs ==
  {[pauseType |-> "", pauseReason |-> << >>],
   [pauseType |-> "DOWNTIME", pauseReason |-> StrTooling]}

Doc(id, status, action, pauseInput, fg, ng, rework) ==
  [status |-> status, action |-> action,
   projectNo |-> id.projectNo, partName |-> id.partName,
   processName |-> id.processName, processNo |-> id.processNo,
   stepNo |-> id.stepNo, machineNo |-> id.machineNo,
   employeeCode |-> StrE1,
   pauseType |-> pauseInput.pauseType, pauseReason |-> pauseInput.pauseReason,
   fg |-> fg, ng |-> ng, rework |-> rework]

NoPauseInput == [pauseType |-> "", pauseReason |-> << >>]

CreateDocs == {Doc(id, "OPEN", "", NoPauseInput, 0, 0, 0) : id \in {IdA, IdA0, IdA1, IdB}}

PauseDocs ==
  {Doc(IdA, "PAUSE", "", pi, 0, 0, 0) : pi \in PauseInputs}
  \cup {Doc(id, "PAUSE", "", NoPauseInput, 0, 0, 0) : id \in {IdB, IdC}}

ContinueDocs == {Doc(id, "OPEN", "CONTINUE", NoPauseInput, 0, 0, 0) : id \in {IdA, IdC}}

StartOtDocs == {Doc(id, "OPEN", "START_OT", NoPauseInput, 0, 0, 0) : id \in {IdA, IdC}}

StopOtDocs == {Doc(id, "OPEN", "STOP_OT", NoPauseInput, 0, 0, 0) : id \in {IdA, IdC}}

CloseDocs == {Doc(id, "CLOSE", "", NoPauseInput, 5, 0, 0) : id \in {IdA, IdB, IdC}}

\* pause documents of step A with no pause type, with the two types the
\* totals know, and with another one
TypedPauseDocs ==
  {Doc(IdA, "PAUSE", "", [pauseType |-> type, pauseReason |-> StrTooling], 0, 0, 0) :
      type \in {"", "PAUSE", "DOWNTIME", "BREAKDOWN"}}

\* the commands on a job step whose process is 'Machine Setting'
IdS == Identity(Str7, StrA, StrMachineSetting, StrM1)

SettingDocs ==
  {Doc(IdS, "OPEN", action, NoPauseInput, 0, 0, 0) :
      action \in {"", "CONTINUE", "START_OT", "STOP_OT"}}
  \cup {Doc(IdS, "PAUSE", "", NoPauseInput, 0, 0, 0),
        Doc(IdS, "CLOSE", "", NoPauseInput, 5, 0, 0)}

\* documents of step A that carry their command in `action` and no status,
\* and a pause document whose status is still OPEN
ActionDocs ==
  {Doc(IdA, "", action, NoPauseInput, 5, 0, 0) :
      action \in {"PAUSE", "CONTINUE", "START_OT", "STOP_OT", "CLOSE"}}
  \cup {Doc(IdA, "OPEN", "PAUSE", NoPauseInput, 0, 0, 0)}

\* ------------------------------------------------------------------------
\* Job validation and row matching
\* ------------------------------------------------------------------------
\* the key comparison of isDuplicateOpenJob (six fields)
SameKeyAsGuard(row, data) ==
  /\ normalizeProjectNo(row.projectNo) = normalizeProjectNo(data.projectNo)
  /\ normalize(row.partName) = normalize(data.partName)
  /\ normalize(row.processName) = normalize(data.processName)
  /\ Trim(row.processNo) = Trim(data.processNo)
  /\ Trim(row.stepNo) = Trim(data.stepNo)
  /\ ToUpperCase(Trim(row.machineNo)) = ToUpperCase(Trim(data.machineNo))

isDuplicateOpenJob(data, sheet) ==
  \E i \in 1..Len(sheet) : sheet[i].status = "OPEN" /\ SameKeyAsGuard(sheet[i], data)

\* the row comparison of the START_OT, STOP_OT, CONTINUE, PAUSE and CLOSE
\* loops (five fields: the part name is not compared)
RowMatches(row, data) ==
  /\ normalizeProjectNo(row.projectNo) = normalizeProjectNo(data.projectNo)
  /\ normalize(row.processName) = normalize(data.processName)
  /\ normalize(row.processNo) = normalize(data.processNo)
  /\ normalize(row.stepNo) = normalize(data.stepNo)
  /\ normalize(row.machineNo) = normalize(data.machineNo)

\* "for (let i = values.length - 1; i > 0; i--)": the last row that matches
\* the command and has one of the given statuses; 0 when there is none
LastMatch(values, data, statuses) ==
  LET hits == {i \in 1..Len(values) :
                 RowMatches(values[i], data) /\ values[i].status \in statuses}
  IN IF hits = {} THEN 0 ELSE CHOOSE i \in hits : \A j \in hits : j <= i

\* index of the last element of a set of list indices; 0 when it is empty
LastOf(hits) ==
  IF hits = {} THEN 0 ELSE CHOOSE j \in hits : \A k \in hits : k <= j

\* "for (let j = otTimes.length - 1; j >= 0; j--)": the last open OT session
LastOpenOt(otTimes) ==
  LastOf({j \in 1..Len(otTimes) : IsOpenOt(otTimes[j])})

\* "Find the last active pause"
LastOpenPause(pauseTimes) ==
  LastOf({j \in 1..Len(pauseTimes) : IsOpenPause(pauseTimes[j])})

\* ------------------------------------------------------------------------
\* submitLog: the outcome of a command on the snapshot `values` at time t,
\* as the setValues / appendRow calls it issues, in order, and the error it
\* throws after them (err = "" when it throws none).  A write is
\*   [kind, row, fields, src, onFail]: the cells `fields` of row `row`
\*   receive their values of the row image `src`; onFail tells what the
\*   handler does when the call throws.
\* ------------------------------------------------------------------------
Reject(message) == [err |-> message, writes |-> << >>]

Accept(writes) == [err |-> "", writes |-> writes]

SetValues(i, fields, src, onFail) ==
  [kind |-> "set", row |-> i, fields |-> fields, src |-> src, onFail |-> onFail]

AppendRow(i, src) ==
  [kind |-> "append", row |-> i, fields |-> DOMAIN src, src |-> src, onFail |-> "throw"]

\* the two setValues calls of START_OT, each in its own try / catch
StartOtWrites(i, src) ==
  Accept(<<SetValues(i, {"status"}, src, "swallow"),
           SetValues(i, {"otJson"}, src, "swallow")>>)

\* the row START_OT leaves behind: stale open sessions auto-stopped, a new
\* open session pushed, status OT
StartOtImage(row, t) ==
  [row EXCEPT
     !.status = "OT",
     !.otJson = JSONstringify(Append(autoStopOtSessions(JSONparse(row.otJson), t),
                                     NewOtSession(t)))]

StartOtRow(values, i, t) ==
  IF i = 0 THEN Reject("START_OT: no open job found")
  ELSE IF t >= setTime(t, OT_HOURS.END.h, OT_HOURS.END.m)
  THEN Reject("START_OT: cannot start OT after 22:30")
  ELSE IF t < setTime(t, OT_HOURS.START.h, OT_HOURS.START.m)
  THEN Reject("START_OT: cannot start OT before 17:30")
  ELSE StartOtWrites(i, StartOtImage(values[i], t))

StartOtOutcome(values, data, t) ==
  StartOtRow(values, LastMatch(values, data, {"OPEN", "OT"}), t)

\* the four setValues calls of STOP_OT, each in its own try / catch
StopOtWrites(i, src) ==
  Accept(<<SetValues(i, {"status"}, src, "swallow"),
           SetValues(i, {"otJson"}, src, "swallow"),
           SetValues(i, {"otSummary"}, src, "swallow"),
           SetValues(i, {"otDuration"}, src, "swallow")>>)

StopOtImage(row, otTimes) ==
  [row EXCEPT
     !.status = IF row.status = "PAUSE" THEN "PAUSE" ELSE "OPEN",
     !.otJson = JSONstringify(otTimes),
     !.otSummary = formatOtTimesSummary(otTimes),
     !.otDuration = msToHHMMSSWithPlaceholder(TotalOtMs(otTimes))]

\* j: the most recent open OT session of the row, 0 when it has none
StopOtSession(i, row, parsed, j, t) ==
  IF j = 0 THEN Reject("STOP_OT: no open OT session")
  ELSE StopOtWrites(i, StopOtImage(row,
                         [parsed EXCEPT ![j].end = t,
                                        ![j].end_local = formatLocalTimestamp(t)]))

StopOtRow(values, i, t) ==
  IF i = 0 THEN Reject("STOP_OT: no matching job or open OT session")
  ELSE StopOtSession(i, values[i], JSONparse(values[i].otJson),
                     LastOpenOt(JSONparse(values[i].otJson)), t)

StopOtOutcome(values, data, t) ==
  StopOtRow(values, LastMatch(values, data, {"OT", "PAUSE"}), t)

\* currentTime >= otStartToday && currentTime <= otEndToday
isWithinOTHours(t) ==
  /\ t >= setTime(t, OT_HOURS.START.h, OT_HOURS.START.m)
  /\ t <= setTime(t, OT_HOURS.END.h, OT_HOURS.END.m)

\* the seven cells of columns 19-25 recomputed from the two session lists
PauseRangeImage(row, status, pauseTimes, otTimes) ==
  [row EXCEPT
     !.status = status,
     !.pauseSummary = formatPauseTimesSummary(pauseTimes, otTimes),
     !.totalDowntime =
        msToHHMMSSWithPlaceholder(sumPauseTypeMs(pauseTimes, "DOWNTIME", otTimes)),
     !.totalNormalPause =
        msToHHMMSSWithPlaceholder(sumPauseTypeMs(pauseTimes, "PAUSE", otTimes)),
     !.totalPauseTime =
        msToHHMMSSWithPlaceholder(calculateTotalPauseTimeWithOTSessions(pauseTimes, otTimes)),
     !.pauseJson = JSONstringify(pauseTimes),
     !.reasonSummary = formatReasonSummary(pauseTimes)]

\* hasActiveOTSession && isWithinOTHours ? "OT" : "OPEN"
ContinueStatus(otTimes, t) ==
  IF (\E k \in 1..Len(otTimes) : IsOpenOt(otTimes[k])) /\ isWithinOTHours(t)
  THEN "OT" ELSE "OPEN"

\* lastPauseIdx: the most recent open pause of the row, 0 when it has none
ContinueSession(i, row, parsed, otTimes, lastPauseIdx, t) ==
  IF lastPauseIdx = 0 THEN Reject("CONTINUE: no pause left to resume")
  ELSE Accept(<<SetValues(i, PauseRangeFields,
                   PauseRangeImage(row, ContinueStatus(otTimes, t),
                     [parsed EXCEPT ![lastPauseIdx].resume = t,
                                    ![lastPauseIdx].resume_local = formatLocalTimestamp(t)],
                     otTimes),
                   "throw")>>)

ContinueRow(values, i, t) ==
  IF i = 0 THEN Reject("CONTINUE: no job in PAUSE status")
  ELSE ContinueSession(i, values[i], JSONparse(values[i].pauseJson),
                       JSONparse(values[i].otJson),
                       LastOpenPause(JSONparse(values[i].pauseJson)), t)

ContinueOutcome(values, data, t) ==
  ContinueRow(values, LastMatch(values, data, {"PAUSE"}), t)

\* the row PAUSE leaves behind: a new open pause session pushed, status PAUSE
PauseImage(row, data, t) ==
  PauseRangeImage(row, "PAUSE",
    Append(JSONparse(row.pauseJson),
           NewPauseSession(IF data.pauseType = "" THEN "PAUSE" ELSE data.pauseType,
                           data.pauseReason, t, row.status = "OT")),
    JSONparse(row.otJson))

PauseRow(values, i, data, t) ==
  IF i = 0 THEN Reject("PAUSE: no job in OPEN or OT status")
  ELSE Accept(<<SetValues(i, PauseRangeFields, PauseImage(values[i], data, t), "throw")>>)

PauseOutcome(values, data, t) ==
  PauseRow(values, LastMatch(values, data, {"OPEN", "OT"}), data, t)

\* Utilities.formatDate(date, 'Asia/Bangkok', 'd/M/yyyy, HH:mm:ss')
UtilitiesFormatDate(date) == formatLocalTimestamp(date)

IsMachineSetting(row) == normalize(row.processName) = normalize(StrMachineSetting)

\* "Handle OT session closure if job was in OT status": the last session of
\* the list is closed at endTime when the row is OT and that session is open
CloseLastOt(status, parsed, endTime) ==
  IF status = "OT" /\ parsed # << >> /\ IsOpenOt(parsed[Len(parsed)])
  THEN [parsed EXCEPT ![Len(parsed)].end = endTime,
                      ![Len(parsed)].end_local = formatLocalTimestamp(endTime)]
  ELSE parsed

\* ... followed by "Auto-stop any other open OT sessions"
CloseOtSessions(row, endTime) ==
  autoStopOtSessions(CloseLastOt(row.status, JSONparse(row.otJson), endTime), endTime)

\* Math.max(0, processMs)
FloorAtZero(ms) == IF ms < 0 THEN 0 ELSE ms

\* a process time from which the pauses are not subtracted
ProcessMsWithPauses(row, endTime, pauseTimes, otTimes) ==
  FloorAtZero(
    calculateWorkingTimeMs(row.startTime, endTime,
                           IF IsMachineSetting(row) THEN MACHINE_SETTING_WORK_END
                           ELSE Undefined)
    + TotalOtMs(otTimes))

\* regularTimeMs + totalOtMs - totalPaused, floored at 0
ProcessMs(row, endTime, pauseTimes, otTimes) ==
  FloorAtZero(
    calculateWorkingTimeMs(row.startTime, endTime,
                           IF IsMachineSetting(row) THEN MACHINE_SETTING_WORK_END
                           ELSE Undefined)
    + TotalOtMs(otTimes)
    - calculateTotalPauseTimeWithOTSessions(pauseTimes, otTimes))

\* the quantity cells: '-' for a Machine Setting job
Quantity(row, n) == IF IsMachineSetting(row) THEN <<"-">> ELSE <<n>>

\* the sixteen cells of columns 13-28 (updateValues)
CloseImage(row, data, pauseTimes, otTimes, t) ==
  [PauseRangeImage(row, "CLOSE", pauseTimes, otTimes) EXCEPT
     !.endEmployeeCode = data.employeeCode,
     !.endTime = UtilitiesFormatDate(t),
     !.processTime = msToHHMMSSWithPlaceholder(ProcessMs(row, t, pauseTimes, otTimes)),
     !.fg = Quantity(row, data.fg),
     !.ng = Quantity(row, data.ng),
     !.rework = Quantity(row, data.rework),
     !.otJson = JSONstringify(otTimes),
     !.otSummary = formatOtTimesSummary(otTimes),
     !.otDuration = msToHHMMSSWithPlaceholder(TotalOtMs(otTimes))]

\* the range write of CLOSE, made twice: the first in a try / catch that
\* writes the End Time cell alone and rethrows, the second unguarded
CloseWrites(i, src) ==
  Accept(<<SetValues(i, CloseRangeFields, src, "fallback"),
           SetValues(i, CloseRangeFields, src, "throw")>>)

\* a close that stamps the End Time cell before it looks at the status
CloseRowStampFirst(values, i, data, t) ==
  IF i = 0 THEN Reject("CLOSE: no started job found")
  ELSE IF values[i].status = "PAUSE"
  THEN [err |-> "CLOSE: job is paused, continue first",
        writes |-> <<SetValues(i, {"endTime"},
                               [values[i] EXCEPT !.endTime = UtilitiesFormatDate(t)],
                               "throw")>>]
  ELSE CloseWrites(i, CloseImage(values[i], data, JSONparse(values[i].pauseJson),
                                 CloseOtSessions(values[i], t), t))

CloseRow(values, i, data, t) ==
  IF i = 0 THEN Reject("CLOSE: no started job found")
  ELSE IF values[i].status = "PAUSE" THEN Reject("CLOSE: job is paused, continue first")
  ELSE CloseWrites(i, CloseImage(values[i], data, JSONparse(values[i].pauseJson),
                                 CloseOtSessions(values[i], t), t))

CloseOutcome(values, data, t) ==
  CloseRow(values, LastMatch(values, data, {"PAUSE", "OPEN", "OT"}), data, t)

\* Math.max(...logNos) + 1, or 1 on an empty sheet
NextLogNo(sheet) ==
  IF sheet = << >> THEN 1
  ELSE (CHOOSE n \in {sheet[i].logNo : i \in 1..Len(sheet)} :
          \A i \in 1..Len(sheet) : sheet[i].logNo <= n) + 1

NewRow(data, logNo, t) ==
  [logNo |-> logNo,
   projectNo |-> data.projectNo, partName |-> data.partName,
   processName |-> data.processName, processNo |-> data.processNo,
   stepNo |-> data.stepNo, machineNo |-> data.machineNo,
   employeeCode |-> data.employeeCode,
   startTime |-> t,
   endEmployeeCode |-> EmptyCell, endTime |-> EmptyCell,
   processTime |-> EmptyCell,
   fg |-> EmptyCell, ng |-> EmptyCell, rework |-> EmptyCell,
   status |-> "OPEN",
   pauseSummary |-> EmptyCell, totalDowntime |-> EmptyCell,
   totalNormalPause |-> EmptyCell, totalPauseTime |-> EmptyCell,
   pauseJson |-> JSONstringify(<< >>),
   reasonSummary |-> EmptyCell,
   otJson |-> BlankJson, otSummary |-> EmptyCell, otDuration |-> EmptyCell]

CreateOutcome(values, data, t) ==
  IF isDuplicateOpenJob(data, values)
  THEN Reject("CREATE: an open job with this key already exists")
  ELSE Accept(<<AppendRow(Len(values) + 1, NewRow(data, NextLogNo(values), t))>>)

\* String(data.action).toUpperCase().replace(/\s+/g, '')
CanonAction(action) ==
  IF action \in {"start_ot", "Start_OT", "START_OT "} THEN "START_OT" ELSE action

\* the branch of submitLog a command document takes
Dispatch(data) ==
  IF data.status = "OPEN" \/ data.action = "START_OT" \/ data.action = "STOP_OT"
  THEN IF CanonAction(data.action) = "START_OT" THEN "START_OT"
       ELSE IF data.action = "STOP_OT" THEN "STOP_OT"
       ELSE IF data.action = "CONTINUE" THEN "CONTINUE"
       ELSE "CREATE"
  ELSE IF data.status = "PAUSE" THEN "PAUSE"
  ELSE IF data.status = "CLOSE" THEN "CLOSE"
  ELSE "NONE"

submitLog(values, data, t) ==
  CASE Dispatch(data) = "START_OT" -> StartOtOutcome(values, data, t)
    [] Dispatch(data) = "STOP_OT" -> StopOtOutcome(values, data, t)
    [] Dispatch(data) = "CONTINUE" -> ContinueOutcome(values, data, t)
    [] Dispatch(data) = "CREATE" -> CreateOutcome(values, data, t)
    [] Dispatch(data) = "PAUSE" -> PauseOutcome(values, data, t)
    [] Dispatch(data) = "CLOSE" -> CloseOutcome(values, data, t)
    [] OTHER -> Accept(<< >>)

\* ------------------------------------------------------------------------
\* autoStopAllOTJobs: the batch of cell writes of one sweep over `values`
\* ------------------------------------------------------------------------
SweepImage(row, otTimes) ==
  [row EXCEPT
     !.otJson = JSONstringify(otTimes),
     !.otSummary = formatOtTimesSummary(otTimes),
     !.otDuration = msToHHMMSSWithPlaceholder(TotalOtMs(otTimes)),
     !.status = IF row.status = "OT" THEN "OPEN" ELSE row.status]

SweepRowImage(row, t) == SweepImage(row, autoStopOtSessions(JSONparse(row.otJson), t))

SweepRowChanged(row, t) ==
  \E k \in 1..Len(JSONparse(row.otJson)) :
     IsOpenOt(JSONparse(row.otJson)[k]) /\ IsStale(JSONparse(row.otJson)[k], t)

\* the batchUpdates entries of one row: OT JSON, OT summary, OT duration and,
\* for a row in OT, the status
SweepRowWrites(i, status, src) ==
  <<SetValues(i, {"otJson"}, src, "swallow"),
    SetValues(i, {"otSummary"}, src, "swallow"),
    SetValues(i, {"otDuration"}, src, "swallow")>>
  \o (IF status = "OT" THEN <<SetValues(i, {"status"}, src, "swallow")>> ELSE << >>)

SweepRowUpdates(values, i, t) ==
  IF ~SweepRowChanged(values[i], t) THEN << >>
  ELSE SweepRowWrites(i, values[i].status, SweepRowImage(values[i], t))

RECURSIVE SweepBatch(_, _, _)
SweepBatch(values, i, t) ==
  IF i > Len(values) THEN << >>
  ELSE SweepRowUpdates(values, i, t) \o SweepBatch(values, i + 1, t)

autoStopAllOTJobs(values, t) == SweepBatch(values, 1, t)

\* ------------------------------------------------------------------------
\* State
\*   rows    the Row Store
\*   now     the wall clock
\*   pc      "idle": no execution in progress; "writing": an execution has
\*           read the sheet and still has setValues calls to make; "done": it
\*           has made them and holds its response
\*   req     the execution in progress: the branch taken, the command
\*           document, the error submitLog throws and whether one of its
\*           writes has thrown
\*   values  the snapshot sheet.getDataRange().getValues() of the execution
\*   pend    the setValues / appendRow calls it has yet to make
\*   resp    the response of doPost
\*   other   a second execution of doPost that overlaps the first (the script
\*           takes no lock): its branch, its snapshot, the calls it has yet
\*           to make, and the number of such executions so far
\*   calc    one evaluation of the calendar functions: its arguments and,
\*           once they have been called, their results
\*   dash    the dashboard API deployment: its Production Summary sheet, its
\*           clock, its script and document properties, the response of the
\*           doGet that ran last, and what an observer of its responses has
\*           noted so far
\* ------------------------------------------------------------------------
VARIABLES rows, now, pc, req, values, pend, resp, other, calc, dash

vars == <<rows, now, pc, req, values, pend, resp, other, calc, dash>>

\* the instants at which the clock is read: Monday 09:00, 18:00, 22:45,
\* Tuesday 09:00, 18:00, 22:45
TimePoints ==
  <<HM(9, 0), HM(18, 0), HM(22, 45),
    MsPerDay + HM(9, 0), MsPerDay + HM(18, 0), MsPerDay + HM(22, 45)>>

NoDoc ==
  Doc(Identity(<< >>, << >>, << >>, << >>), "", "", NoPauseInput, 0, 0, 0)

NoReq == [op |-> "NONE", data |-> NoDoc, err |-> "", failed |-> FALSE]

NoResp == [status |-> "NONE", message |-> ""]

OkResp == [status |-> "OK", message |-> ""]

ErrorResp(message) == [status |-> "ERROR", message |-> message]

NoOther == [op |-> "NONE", values |-> << >>, pend |-> << >>, count |-> 0]

NoCalc == [called |-> {}]

\* the dashboard deployment before it is looked at
NoDash == [now |-> 0]

Init ==
  /\ rows = << >>
  /\ now = TimePoints[1]
  /\ pc = "idle"
  /\ req = NoReq
  /\ values = << >>
  /\ pend = << >>
  /\ resp = NoResp
  /\ other = NoOther
  /\ dash = NoDash
  /\ calc = NoCalc

\* the sheet a write leaves behind, had it been applied to `sheet`
ApplyWrite(sheet, w) ==
  IF w.kind = "append" THEN Append(sheet, w.src)
  ELSE [sheet EXCEPT ![w.row] =
          [f \in DOMAIN @ |-> IF f \in w.fields THEN w.src[f] ELSE @[f]]]

RECURSIVE ApplyAll(_, _)
ApplyAll(sheet, writes) ==
  IF writes = << >> THEN sheet
  ELSE ApplyAll(ApplyWrite(sheet, Head(writes)), Tail(writes))

PauseSessionCount(sheet) ==
  SumSeq([i \in 1..Len(sheet) |-> Len(sheet[i].pauseJson.list)])

OtSessionCount(sheet) ==
  SumSeq([i \in 1..Len(sheet) |-> Len(sheet[i].otJson.list)])

\* the explored behaviours: at most lim.rows rows, at most lim.size rows and
\* sessions together, and the first lim.clock instants of lim.times
LimitAt(maxRows, maxSize, maxClock, times) ==
  [rows |-> maxRows, size |-> maxSize, clock |-> maxClock, times |-> times]

Limit(maxRows, maxSize, maxClock) == LimitAt(maxRows, maxSize, maxClock, TimePoints)

WithinBounds(sheet, lim) ==
  /\ Len(sheet) <= lim.rows
  /\ Len(sheet) + PauseSessionCount(sheet) + OtSessionCount(sheet) <= lim.size

Tick(lim) ==
  /\ pc = "idle"
  /\ other.pend = << >>
  /\ \E k \in 1..Min2(lim.clock, Len(lim.times)) :
        /\ lim.times[k] > now
        /\ now' = lim.times[k]
  /\ UNCHANGED <<rows, pc, req, values, pend, resp, other, calc, dash>>

\* doPost(e) up to the first write: submitLog has read the sheet, validated
\* and computed the row image (outcome); a throw becomes the ERROR response
Respond(data, outcome, lim) ==
  /\ pc = "idle"
  /\ other.pend = << >>
  /\ WithinBounds(ApplyAll(rows, outcome.writes), lim)
  /\ req' = [op |-> Dispatch(data), data |-> data, err |-> outcome.err,
              failed |-> FALSE]
  /\ values' = rows
  /\ pend' = outcome.writes
  /\ IF outcome.writes # << >>
     THEN pc' = "writing" /\ resp' = NoResp
     ELSE IF outcome.err # ""
     THEN pc' = "done" /\ resp' = ErrorResp(outcome.err)
     ELSE pc' = "done" /\ resp' = OkResp
  /\ UNCHANGED <<rows, now, other, calc, dash>>

DoPost(data, lim) == Respond(data, submitLog(rows, data, now), lim)

Create(lim) ==
  \E data \in CreateDocs : Dispatch(data) = "CREATE" /\ DoPost(data, lim)

Pause(lim) ==
  \E data \in PauseDocs : Dispatch(data) = "PAUSE" /\ DoPost(data, lim)

Continue(lim) ==
  \E data \in ContinueDocs : Dispatch(data) = "CONTINUE" /\ DoPost(data, lim)

StartOT(lim) ==
  \E data \in StartOtDocs : Dispatch(data) = "START_OT" /\ DoPost(data, lim)

StopOT(lim) ==
  \E data \in StopOtDocs : Dispatch(data) = "STOP_OT" /\ DoPost(data, lim)

Close(lim) ==
  \E data \in CloseDocs : Dispatch(data) = "CLOSE" /\ DoPost(data, lim)

\* the time-based trigger fires at or after the 22:30 cutoff of a day
SweepDue(t) == t % MsPerDay >= HM(OT_HOURS.END.h, OT_HOURS.END.m)

SweepRun(batchUpdates) ==
  /\ pc = "idle"
  /\ req' = [op |-> "SWEEP", data |-> NoDoc, err |-> "", failed |-> FALSE]
  /\ values' = rows
  /\ pend' = batchUpdates
  /\ pc' = IF batchUpdates = << >> THEN "done" ELSE "writing"
  /\ resp' = NoResp
  /\ UNCHANGED <<rows, now, other, calc, dash>>

Sweep == SweepDue(now) /\ SweepRun(autoStopAllOTJobs(rows, now))

\* the response once the last write has been made: the error thrown after
\* it, if any, reaches doPost's catch
FinalResp ==
  IF req.op = "SWEEP" THEN NoResp
  ELSE IF req.err # "" THEN ErrorResp(req.err)
  ELSE OkResp

\* one setValues / appendRow call that succeeds
WriteOk ==
  /\ pc = "writing"
  /\ pend # << >>
  /\ rows' = ApplyWrite(rows, Head(pend))
  /\ pend' = Tail(pend)
  /\ IF Tail(pend) = << >>
     THEN pc' = "done" /\ resp' = FinalResp
     ELSE pc' = "writing" /\ resp' = resp
  /\ UNCHANGED <<now, req, values, other, calc, dash>>

\* one setValues / appendRow call that throws
\*   "swallow":  try { setValues } catch { console.error } - the loop goes on
\*   "throw":    the error reaches doPost's catch
\*   "fallback": close writes the End Time cell alone (which may throw too,
\*               silently) and then throws
WriteFail ==
  /\ pc = "writing"
  /\ pend # << >>
  /\ LET w == Head(pend)
     IN CASE w.onFail = "swallow" ->
               /\ rows' = rows
               /\ pend' = Tail(pend)
               /\ IF Tail(pend) = << >>
                  THEN pc' = "done" /\ resp' = FinalResp
                  ELSE pc' = "writing" /\ resp' = resp
          [] w.onFail = "throw" ->
               /\ rows' = rows
               /\ pend' = << >>
               /\ pc' = "done"
               /\ resp' = ErrorResp("write failed")
          [] w.onFail = "fallback" ->
               /\ rows' \in {ApplyWrite(rows, [w EXCEPT !.fields = {"endTime"}]), rows}
               /\ pend' = << >>
               /\ pc' = "done"
               /\ resp' = ErrorResp("write failed")
  /\ req' = [req EXCEPT !.failed = TRUE]
  /\ UNCHANGED <<now, values, other, calc, dash>>

\* the execution ends (the response is sent)
Return ==
  /\ pc = "done"
  /\ pc' = "idle"
  /\ req' = NoReq
  /\ values' = << >>
  /\ pend' = << >>
  /\ resp' = NoResp
  /\ UNCHANGED <<rows, now, other, calc, dash>>

\* a second request arrives while the first is in progress: it reads the
\* sheet and computes its writes (no third request begins until both have
\* ended)
OverlapRead(data, outcome, lim) ==
  /\ pc = "writing"
  /\ other.pend = << >>
  /\ other.count < MaxOverlaps
  /\ outcome.err = ""
  /\ outcome.writes # << >>
  /\ WithinBounds(ApplyAll(ApplyAll(rows, pend), outcome.writes), lim)
  /\ other' = [op |-> Dispatch(data), values |-> rows, pend |-> outcome.writes,
                count |-> other.count + 1]
  /\ UNCHANGED <<rows, now, pc, req, values, pend, resp, calc, dash>>

Overlap(lim) ==
  \E data \in CreateDocs \cup PauseDocs \cup ContinueDocs \cup StartOtDocs
               \cup StopOtDocs \cup CloseDocs :
     Dispatch(data) # "NONE" /\ OverlapRead(data, submitLog(rows, data, now), lim)

\* one setValues call of the second request
OverlapWrite ==
  /\ other.pend # << >>
  /\ rows' = ApplyWrite(rows, Head(other.pend))
  /\ other' = IF Tail(other.pend) = << >>
              THEN [NoOther EXCEPT !.count = other.count]
              ELSE [other EXCEPT !.pend = Tail(@)]
  /\ UNCHANGED <<now, pc, req, values, pend, resp, calc, dash>>

Next(lim) ==
  \/ Tick(lim)
  \/ Create(lim)
  \/ Pause(lim)
  \/ Continue(lim)
  \/ StartOT(lim)
  \/ StopOT(lim)
  \/ Close(lim)
  \/ Sweep
  \/ WriteOk
  \/ Return

\* one request at a time, and the Row Store applies every write
Spec == Init /\ [][Next(Limit(MaxRows, MaxSize, MaxClock))]_vars

\* one request at a time, and the Row Store may fail any write
NextFail == Next(Limit(MaxRows, MaxFailSize, MaxClock)) \/ WriteFail

SpecFail == Init /\ [][NextFail]_vars

\* two requests may overlap, on a working day before the cutoff
OverlapLimit == Limit(MaxOverlapRows, MaxOverlapSize, MaxOverlapClock)

NextOverlap ==
  \/ Tick(OverlapLimit)
  \/ Create(OverlapLimit)
  \/ Pause(OverlapLimit)
  \/ Continue(OverlapLimit)
  \/ StartOT(OverlapLimit)
  \/ StopOT(OverlapLimit)
  \/ Close(OverlapLimit)
  \/ WriteOk
  \/ Return
  \/ Overlap(OverlapLimit)
  \/ OverlapWrite

SpecOverlap == Init /\ [][NextOverlap]_vars

\* one request at a time on a sheet large enough for two job steps with a
\* session each, on a working day before the cutoff; no job is closed
PairLimit == Limit(MaxPairRows, MaxPairSize, MaxPairClock)

NextPair ==
  \/ Tick(PairLimit)
  \/ Create(PairLimit)
  \/ Pause(PairLimit)
  \/ Continue(PairLimit)
  \/ StartOT(PairLimit)
  \/ StopOT(PairLimit)
  \/ WriteOk
  \/ Return

SpecPair == Init /\ [][NextPair]_vars

\* the instants of a Monday morning: 09:00, 10:00, 10:30, 11:00
ShiftTimes == <<HM(9, 0), HM(10, 0), HM(10, 30), HM(11, 0)>>

\* one request at a time during one morning shift
ShiftLimit == LimitAt(MaxShiftRows, MaxShiftSize, MaxShiftClock, ShiftTimes)

NextShift ==
  \/ Tick(ShiftLimit)
  \/ Create(ShiftLimit)
  \/ Pause(ShiftLimit)
  \/ Continue(ShiftLimit)
  \/ StartOT(ShiftLimit)
  \/ StopOT(ShiftLimit)
  \/ Close(ShiftLimit)
  \/ WriteOk
  \/ Return

SpecShift == Init /\ [][NextShift]_vars

\* Creates and closes with a second request in progress beside the first, on
\* a sheet of more than one row.
LogLimit == Limit(MaxLogRows, MaxLogSize, MaxLogClock)

NextLog ==
  \/ Create(LogLimit)
  \/ Close(LogLimit)
  \/ WriteOk
  \/ Return
  \/ Overlap(LogLimit)
  \/ OverlapWrite

SpecLog == Init /\ [][NextLog]_vars

\* One request at a time, among them documents that name their command in
\* `action`.
PostLimit == Limit(MaxPostRows, MaxPostSize, MaxPostClock)

Post(lim) ==
  \E data \in ActionDocs : data.action # "" /\ DoPost(data, lim)

NextPost ==
  \/ Tick(PostLimit)
  \/ Create(PostLimit)
  \/ Pause(PostLimit)
  \/ Continue(PostLimit)
  \/ StartOT(PostLimit)
  \/ StopOT(PostLimit)
  \/ Close(PostLimit)
  \/ Post(PostLimit)
  \/ WriteOk
  \/ Return

SpecPost == Init /\ [][NextPost]_vars

\* One request at a time during one morning shift, with pauses of several
\* types.
TypedLimit == LimitAt(MaxTypedRows, MaxTypedSize, MaxTypedClock, ShiftTimes)

PauseTyped(lim) ==
  \E data \in TypedPauseDocs : Dispatch(data) = "PAUSE" /\ DoPost(data, lim)

NextTyped ==
  \/ Tick(TypedLimit)
  \/ Create(TypedLimit)
  \/ PauseTyped(TypedLimit)
  \/ Continue(TypedLimit)
  \/ Close(TypedLimit)
  \/ WriteOk
  \/ Return

SpecTyped == Init /\ [][NextTyped]_vars

\* One request at a time on one Machine Setting job, over a working day and
\* its evening.
SettingLimit == Limit(MaxSettingRows, MaxSettingSize, MaxSettingClock)

PostSetting(lim) ==
  \E data \in SettingDocs : IsMachineSetting(data) /\ DoPost(data, lim)

NextSetting ==
  \/ Tick(SettingLimit)
  \/ PostSetting(SettingLimit)
  \/ Sweep
  \/ WriteOk
  \/ Return

SpecSetting == Init /\ [][NextSetting]_vars

\* ------------------------------------------------------------------------
\* The time calculation functions on their own: the dates are drawn from a
\* Saturday, the Sunday after it and the following days, the work end is the
\* default or the machine-setting one, and each function is called on the
\* interval, on its two parts and on the interval reversed.
\* ------------------------------------------------------------------------
\* Saturday, Sunday, Monday, Tuesday (day 0 is a Monday)
CalendarDays == <<5, 6, 7, 8>>

ClockTimes ==
  <<HM(0, 0), HM(8, 0), HM(8, 30), HM(10, 0), HM(12, 0), HM(12, 30),
    HM(13, 0), HM(14, 0), HM(15, 0), HM(15, 5), HM(15, 10), HM(16, 0),
    HM(16, 45), HM(17, 30), HM(20, 0), HM(22, 30), HM(23, 0)>>

CalendarInstants ==
  {CalendarDays[d] * MsPerDay + ClockTimes[k] :
      d \in 1..Min2(MaxCalendarDays, Len(CalendarDays)), k \in 1..Len(ClockTimes)}

CustomWorkEnds == {Undefined, MACHINE_SETTING_WORK_END}

NoTimes == [whole |-> 0, first |-> 0, second |-> 0, reverse |-> 0]

CalcInput(start, mid, end, customWorkEnd) ==
  [called |-> {}, start |-> start, mid |-> mid, end |-> end,
   customWorkEnd |-> customWorkEnd, working |-> NoTimes, ot |-> NoTimes]

InitCalendar ==
  /\ rows = << >>
  /\ now = TimePoints[1]
  /\ pc = "idle"
  /\ req = NoReq
  /\ values = << >>
  /\ pend = << >>
  /\ resp = NoResp
  /\ other = NoOther
  /\ dash = NoDash
  /\ \E start \in CalendarInstants, mid \in CalendarInstants,
        end \in CalendarInstants, customWorkEnd \in CustomWorkEnds :
        /\ start <= mid
        /\ mid <= end
        /\ calc = CalcInput(start, mid, end, customWorkEnd)

WorkingTimes(start, mid, end, customWorkEnd) ==
  [whole |-> calculateWorkingTimeMs(start, end, customWorkEnd),
   first |-> calculateWorkingTimeMs(start, mid, customWorkEnd),
   second |-> calculateWorkingTimeMs(mid, end, customWorkEnd),
   reverse |-> calculateWorkingTimeMs(end, start, customWorkEnd)]

OtTimes(start, mid, end) ==
  [whole |-> calculateOtTimeMs(start, end),
   first |-> calculateOtTimeMs(start, mid),
   second |-> calculateOtTimeMs(mid, end),
   reverse |-> calculateOtTimeMs(end, start)]

CallWorkingTime ==
  /\ "working" \notin calc.called
  /\ calc' = [calc EXCEPT
                !.called = @ \cup {"working"},
                !.working = WorkingTimes(calc.start, calc.mid, calc.end, calc.customWorkEnd)]
  /\ UNCHANGED <<rows, now, pc, req, values, pend, resp, other, dash>>

CallOtTime ==
  /\ "ot" \notin calc.called
  /\ calc' = [calc EXCEPT
                !.called = @ \cup {"ot"},
                !.ot = OtTimes(calc.start, calc.mid, calc.end)]
  /\ UNCHANGED <<rows, now, pc, req, values, pend, resp, other, dash>>

NextCalendar == CallWorkingTime \/ CallOtTime

SpecCalendar == InitCalendar /\ [][NextCalendar]_vars

\* ------------------------------------------------------------------------
\* The pause time calculation on its own: a completed pause and a list of OT
\* sessions as START_OT, STOP_OT, CLOSE and the sweep leave them (started
\* inside 17:30-22:30 in the order of the list, closed at or after their
\* start or still open), all on one Monday.
\* ------------------------------------------------------------------------
EveningTimes ==
  <<HM(16, 0), HM(17, 0), HM(18, 0), HM(19, 0), HM(20, 0), HM(21, 0),
    HM(22, 30), HM(23, 0)>>

EveningInstants == {EveningTimes[k] : k \in 1..Len(EveningTimes)}

OtStarts ==
  {t \in EveningInstants :
      /\ t >= HM(OT_HOURS.START.h, OT_HOURS.START.m)
      /\ t < HM(OT_HOURS.END.h, OT_HOURS.END.m)}

LoggedOt(start, end) ==
  [NewOtSession(start) EXCEPT
     !.end = end,
     !.end_local = IF end = NoTime THEN NoLocal ELSE formatLocalTimestamp(end)]

LoggedOts ==
  {LoggedOt(span[1], span[2]) :
      span \in {pair \in OtStarts \X (EveningInstants \cup {NoTime}) :
                  pair[2] = NoTime \/ pair[2] >= pair[1]}}

OtLists ==
  {otSessions \in UNION {[1..n -> LoggedOts] : n \in 0..MaxOtSessions} :
      \A k \in 1..Len(otSessions) :
         k > 1 => otSessions[k - 1].start <= otSessions[k].start}

PauseInput(pauseStart, pauseEnd, otSessions) ==
  [called |-> {}, pauseStart |-> pauseStart, pauseEnd |-> pauseEnd,
   otSessions |-> otSessions, pauseMs |-> 0]

InitPauseTime ==
  /\ rows = << >>
  /\ now = TimePoints[1]
  /\ pc = "idle"
  /\ req = NoReq
  /\ values = << >>
  /\ pend = << >>
  /\ resp = NoResp
  /\ other = NoOther
  /\ dash = NoDash
  /\ \E pauseStart \in EveningInstants, pauseEnd \in EveningInstants,
        otSessions \in OtLists :
        /\ pauseStart <= pauseEnd
        /\ calc = PauseInput(pauseStart, pauseEnd, otSessions)

CallPauseTime ==
  /\ "pause" \notin calc.called
  /\ calc' = [calc EXCEPT
                !.called = @ \cup {"pause"},
                !.pauseMs = calculatePauseTimeWithOTSessions(calc.pauseStart, calc.pauseEnd,
                                                             calc.otSessions)]
  /\ UNCHANGED <<rows, now, pc, req, values, pend, resp, other, dash>>

NextPauseTime == CallPauseTime

SpecPauseTime == InitPauseTime /\ [][NextPauseTime]_vars

\* ------------------------------------------------------------------------
\* The project number normalization on its own: two project numbers as they
\* are typed, of blanks, zeros and a digit.
\* ------------------------------------------------------------------------
ProjectNoChars == {" ", "0", "7"}

ProjectNos == UNION {[1..n -> ProjectNoChars] : n \in 0..MaxProjectNoLen}

ProjectNoInput(s, t) ==
  [called |-> {}, s |-> s, t |-> t, projectNoS |-> << >>, projectNoT |-> << >>]

InitProjectNo ==
  /\ rows = << >>
  /\ now = TimePoints[1]
  /\ pc = "idle"
  /\ req = NoReq
  /\ values = << >>
  /\ pend = << >>
  /\ resp = NoResp
  /\ other = NoOther
  /\ dash = NoDash
  /\ \E s \in ProjectNos, t \in ProjectNos : calc = ProjectNoInput(s, t)

CallNormalizeProjectNo ==
  /\ "projectNo" \notin calc.called
  /\ calc' = [calc EXCEPT
                !.called = @ \cup {"projectNo"},
                !.projectNoS = normalizeProjectNo(calc.s),
                !.projectNoT = normalizeProjectNo(calc.t)]
  /\ UNCHANGED <<rows, now, pc, req, values, pend, resp, other, dash>>

NextProjectNo == CallNormalizeProjectNo

SpecProjectNo == InitProjectNo /\ [][NextProjectNo]_vars

\* ------------------------------------------------------------------------
\* Dashboard API (separate deployment, src/unnamed/part_001): doGet serves
\* getActiveJobs and getVersion from the Production Summary sheet, with a
\* cache for each in the document and script properties and an invalidation
\* flag in the script properties. One execution of doGet is one step.
\* ------------------------------------------------------------------------
HASH_BASE == 31
HASH_ROWS == 10
HASH_MODULUS == 1000000
HASH_FALLBACK_MS == 30000
INVALIDATION_MS == 30000
VERSION_CACHE_MS == 8000
ACTIVE_JOBS_CACHE_MS == 15000

StrOnProcess == <<"O", "n", " ", "P", "r", "o", "c", "e", "s", "s">>

StrPAUSE == <<"P", "A", "U", "S", "E">>

DashStatuses == {StrOnProcess, StrPAUSE}

DashMachines == {StrM1, StrM2}

\* String.prototype.charCodeAt(0) of the first characters that occur
charCodeAt(c) ==
  CASE c = "O" -> 79 [] c = "P" -> 80 [] c = "M" -> 77 [] OTHER -> 63

\* one data row of the sheet: column 6 (status) and column 7 (machine)
SummaryRow(status, machine) == [status |-> status, machine |-> machine]

\* sheet.getLastRow(): the header row and the data rows
getLastRow(sheet) == Len(sheet) + 1

\* one pass of the loop over statusValues, i counted from 0
HashStep(sheet, i) ==
  (Len(sheet[i + 1].status) + Len(sheet[i + 1].machine)) * (i + 1)
  + (IF Len(sheet[i + 1].status) > 0
     THEN charCodeAt(sheet[i + 1].status[1]) * (i + 1) ELSE 0)
  + (IF Len(sheet[i + 1].machine) > 0
     THEN charCodeAt(sheet[i + 1].machine[1]) * (i + 2) ELSE 0)

\* quickHash; hashError: getRange / getValues has thrown and the hash falls
\* back to the time
quickHash(sheet, t, hashError) ==
  IF getLastRow(sheet) > 1
  THEN IF hashError
       THEN getLastRow(sheet) * (t \div HASH_FALLBACK_MS)
       ELSE getLastRow(sheet) * HASH_BASE
            + SumSeq([k \in 1..Min2(HASH_ROWS, getLastRow(sheet) - 1) |->
                        HashStep(sheet, k - 1)])
  ELSE getLastRow(sheet) * HASH_BASE

\* Math.abs
Abs(n) == IF n < 0 THEN 0 - n ELSE n

\* the version object
Version(sheet, t, hashError) ==
  [lastModified |-> t, rowCount |-> getLastRow(sheet),
   dataHash |-> Abs(quickHash(sheet, t, hashError)) % HASH_MODULUS]

\* the version object of the catch block
ErrorVersion(t) == [lastModified |-> t, rowCount |-> 0, dataHash |-> 0]

\* a property that is not set / the properties the handlers set; readSeq is
\* the number of edits the sheet had seen when the cached data was read
NoProperty ==
  [set |-> FALSE, timestamp |-> 0, version |-> ErrorVersion(0), data |-> << >>,
   readSeq |-> 0]

VersionCache(version, t, readSeq) ==
  [NoProperty EXCEPT !.set = TRUE, !.timestamp = t, !.version = version,
                     !.readSeq = readSeq]

ActiveJobsCache(data, t, readSeq) ==
  [NoProperty EXCEPT !.set = TRUE, !.timestamp = t, !.data = data,
                     !.readSeq = readSeq]

Invalidation(t) == [NoProperty EXCEPT !.set = TRUE, !.timestamp = t]

\* a response of doGet; at: when it was made; readAt / readSeq: when the
\* data it carries was read from the sheet; fault: the read error of this
\* execution; signalled: invalidateDashboardCache had run since the
\* getVersion before
NoDashResp ==
  [kind |-> "none", success |-> FALSE, cached |-> FALSE,
   version |-> ErrorVersion(0), data |-> << >>, at |-> 0, readAt |-> 0,
   readSeq |-> 0, fault |-> "none", signalled |-> FALSE]

DashResp(d, kind, success, cached, version, data, readAt, readSeq, fault) ==
  [kind |-> kind, success |-> success, cached |-> cached, version |-> version,
   data |-> data, at |-> d.now, readAt |-> readAt, readSeq |-> readSeq,
   fault |-> fault, signalled |-> d.signalled]

\* what an observer keeps of a getVersion response
NoSeen == [set |-> FALSE, dataHash |-> 0, rowCount |-> 0, readSeq |-> 0]

Seen(r) ==
  [set |-> TRUE, dataHash |-> r.version.dataHash, rowCount |-> r.version.rowCount,
   readSeq |-> r.readSeq]

DashStart ==
  [now |-> 0,
   sheet |-> <<SummaryRow(StrOnProcess, StrM1)>>,
   edits |-> 0,
   dashboardVersionCache |-> NoProperty,
   dashboardInvalidated |-> NoProperty,
   dashboardActiveJobsCache |-> NoProperty,
   resp |-> NoDashResp,
   signalled |-> FALSE,
   lastVersion |-> NoSeen,
   prevVersion |-> NoSeen]

\* a check of the flag that never finds it set
neverInvalidated(d) == FALSE

\* the flag is read as set: "(now - invalidation.timestamp) < 30000"
dataInvalidated(d) ==
  d.dashboardInvalidated.set /\ d.now - d.dashboardInvalidated.timestamp < INVALIDATION_MS

\* "(now - cachedData.timestamp) < 8000"
VersionCacheFresh(d) ==
  d.dashboardVersionCache.set /\ d.now - d.dashboardVersionCache.timestamp < VERSION_CACHE_MS

\* "(now - cachedData.timestamp) < 15000"
ActiveJobsCacheFresh(d) ==
  d.dashboardActiveJobsCache.set
  /\ d.now - d.dashboardActiveJobsCache.timestamp < ACTIVE_JOBS_CACHE_MS

\* the observer's note of a getVersion response
Observe(d, r) ==
  [d EXCEPT !.resp = r,
            !.signalled = FALSE,
            !.prevVersion = IF r.success THEN d.lastVersion ELSE @,
            !.lastVersion = IF r.success THEN Seen(r) ELSE @]

\* the flag check of getDashboardVersion: a flag read as set is deleted
AfterFlagCheck(d) ==
  IF dataInvalidated(d) THEN [d EXCEPT !.dashboardInvalidated = NoProperty] ELSE d

\* "Fetch fresh data": fault "open" / "missing" - openById throws or the
\* sheet is not found, and the catch block answers; fault "hash" - the
\* range read throws and the hash falls back to the time
FreshVersion(d, flagged, fault) ==
  IF fault \in {"open", "missing"}
  THEN Observe(AfterFlagCheck(d),
               DashResp(d, "getVersion", FALSE, FALSE, ErrorVersion(d.now), << >>,
                        d.now, d.edits, fault))
  ELSE Observe([AfterFlagCheck(d) EXCEPT
                  !.dashboardVersionCache =
                     VersionCache(Version(d.sheet, d.now, fault = "hash"), d.now, d.edits)],
               DashResp(d, "getVersion", TRUE, FALSE, Version(d.sheet, d.now, fault = "hash"),
                        << >>, d.now, d.edits, fault))

CachedVersion(d) ==
  Observe(d, DashResp(d, "getVersion", TRUE, TRUE, d.dashboardVersionCache.version, << >>,
                      d.dashboardVersionCache.timestamp,
                      d.dashboardVersionCache.readSeq, "none"))

getDashboardVersion(d, fault) ==
  IF ~dataInvalidated(d) /\ VersionCacheFresh(d)
  THEN CachedVersion(d)
  ELSE FreshVersion(d, dataInvalidated(d), fault)

\* allData.filter(job => job.status === 'On Process')
ActiveJobs(sheet) == SelectSeq(sheet, LAMBDA job : job.status = StrOnProcess)

\* "Fetch fresh data": fault "open" - getActiveSpreadsheet throws and the
\* catch block answers; "missing" - the sheet is not found; "values" -
\* getDataRange().getValues() throws inside getDashboardSheetData, which
\* returns []
FreshActiveJobs(d, fault) ==
  IF fault = "open"
  THEN [d EXCEPT !.resp = DashResp(d, "getActiveJobs", FALSE, FALSE, ErrorVersion(0), << >>,
                                   d.now, d.edits, fault)]
  ELSE IF fault = "missing"
  THEN [d EXCEPT !.resp = DashResp(d, "getActiveJobs", TRUE, FALSE, ErrorVersion(0), << >>,
                                   d.now, d.edits, fault)]
  ELSE [d EXCEPT
          !.dashboardActiveJobsCache =
             ActiveJobsCache(IF fault = "values" THEN << >> ELSE ActiveJobs(d.sheet),
                             d.now, d.edits),
          !.resp = DashResp(d, "getActiveJobs", TRUE, FALSE, ErrorVersion(0),
                            IF fault = "values" THEN << >> ELSE ActiveJobs(d.sheet),
                            d.now, d.edits, fault)]

getDashboardActiveJobs(d, fault) ==
  IF ActiveJobsCacheFresh(d)
  THEN [d EXCEPT !.resp = DashResp(d, "getActiveJobs", TRUE, TRUE, ErrorVersion(0),
                                   d.dashboardActiveJobsCache.data,
                                   d.dashboardActiveJobsCache.timestamp,
                                   d.dashboardActiveJobsCache.readSeq, "none")]
  ELSE FreshActiveJobs(d, fault)

invalidateDashboardCache(d) ==
  [d EXCEPT !.dashboardVersionCache = NoProperty,
            !.dashboardActiveJobsCache = NoProperty,
            !.dashboardInvalidated = Invalidation(d.now),
            !.signalled = TRUE]

\* ManufacturingAPI.getActiveJobs of the dashboard client, on a response
ClientActiveJobs(r) ==
  IF r.success THEN [success |-> TRUE, data |-> r.data]
  ELSE [success |-> FALSE, data |-> << >>]

\* the sheet after one edit: a status or a machine is changed, or a row is
\* appended
SheetEdits(sheet) ==
  {[sheet EXCEPT ![i].status = status] :
      i \in 1..Len(sheet), status \in DashStatuses}
  \cup {[sheet EXCEPT ![i].machine = machine] :
      i \in 1..Len(sheet), machine \in DashMachines}
  \cup (IF Len(sheet) < MaxDashRows
        THEN {Append(sheet, SummaryRow(status, machine)) :
                 status \in DashStatuses, machine \in DashMachines}
        ELSE {})

DashTickMs == 6 * MsPerSecond

InitDash ==
  /\ rows = << >>
  /\ now = TimePoints[1]
  /\ pc = "idle"
  /\ req = NoReq
  /\ values = << >>
  /\ pend = << >>
  /\ resp = NoResp
  /\ other = NoOther
  /\ calc = NoCalc
  /\ dash = DashStart

DashTick ==
  /\ dash.now < MaxDashTicks * DashTickMs
  /\ dash' = [dash EXCEPT !.now = @ + DashTickMs]
  /\ UNCHANGED <<rows, now, pc, req, values, pend, resp, other, calc>>

EditSheet ==
  /\ dash.edits < MaxEdits
  /\ \E sheet \in SheetEdits(dash.sheet) :
        /\ sheet # dash.sheet
        /\ dash' = [dash EXCEPT !.sheet = sheet, !.edits = @ + 1]
  /\ UNCHANGED <<rows, now, pc, req, values, pend, resp, other, calc>>

GetVersion ==
  /\ dash' = getDashboardVersion(dash, "none")
  /\ UNCHANGED <<rows, now, pc, req, values, pend, resp, other, calc>>

GetActiveJobs ==
  /\ dash' = getDashboardActiveJobs(dash, "none")
  /\ UNCHANGED <<rows, now, pc, req, values, pend, resp, other, calc>>

Invalidate ==
  /\ dash' = invalidateDashboardCache(dash)
  /\ UNCHANGED <<rows, now, pc, req, values, pend, resp, other, calc>>

GetVersionFault ==
  /\ \E fault \in {"open", "missing", "hash"} : dash' = getDashboardVersion(dash, fault)
  /\ UNCHANGED <<rows, now, pc, req, values, pend, resp, other, calc>>

GetActiveJobsFault ==
  /\ \E fault \in {"open", "missing", "values"} :
        dash' = getDashboardActiveJobs(dash, fault)
  /\ UNCHANGED <<rows, now, pc, req, values, pend, resp, other, calc>>

NextDash == DashTick \/ EditSheet \/ GetVersion \/ GetActiveJobs \/ Invalidate

SpecDash == InitDash /\ [][NextDash]_vars

\* read errors, on a sheet that is not edited
NextDashFail ==
  DashTick \/ GetVersion \/ GetActiveJobs \/ GetVersionFault \/ GetActiveJobsFault

SpecDashFail == InitDash /\ [][NextDashFail]_vars

\* ------------------------------------------------------------------------
\* The dashboard client (Dashboard.js) polling the deployment: the state of
\* the component is the field `client` of dash
\*   mounted             the initial fetch has been made
\*   jobs                the job list on display (setJobs)
\*   error               setError has been called with an error
\*   lastDataVersion     the fingerprint recorded as seen
\*   versionCheckFailed  the component polls in fallback mode
\* ------------------------------------------------------------------------
NoClient ==
  [mounted |-> FALSE, jobs |-> << >>, error |-> FALSE,
   lastDataVersion |-> NoSeen, versionCheckFailed |-> FALSE]

ClientStart == [client |-> NoClient] @@ DashStart

\* ManufacturingAPI.getDataVersion, on a response
ClientDataVersion(r) ==
  IF r.success THEN [success |-> TRUE, version |-> r.version]
  ELSE [success |-> FALSE, version |-> ErrorVersion(0)]

\* fetchActiveJobs: the job list is replaced on success, the error is set
\* otherwise
fetchActiveJobs(d, fault) ==
  LET d1 == getDashboardActiveJobs(d, fault)
      result == ClientActiveJobs(d1.resp)
  IN [d1 EXCEPT !.client.mounted = TRUE,
                !.client.jobs = IF result.success THEN result.data ELSE @,
                !.client.error = ~result.success]

\* "currentVersion.dataHash !== lastDataVersion.dataHash || ..."
VersionChanged(client, version) ==
  \/ ~client.lastDataVersion.set
  \/ version.dataHash # client.lastDataVersion.dataHash
  \/ version.rowCount # client.lastDataVersion.rowCount

\* checkDataVersion: versionFault / jobsFault are the read errors of the
\* two requests it makes
checkDataVersion(d, versionFault, jobsFault) ==
  LET d1 == getDashboardVersion(d, versionFault)
      versionResult == ClientDataVersion(d1.resp)
  IN IF ~versionResult.success
     THEN [d1 EXCEPT !.client.versionCheckFailed = TRUE]
     ELSE IF VersionChanged(d.client, versionResult.version)
     THEN [fetchActiveJobs(d1, jobsFault) EXCEPT
             !.client.lastDataVersion = Seen(d1.resp),
             !.client.versionCheckFailed = FALSE]
     ELSE [d1 EXCEPT !.client.lastDataVersion = Seen(d1.resp),
                     !.client.versionCheckFailed = FALSE]

InitClient ==
  /\ rows = << >>
  /\ now = TimePoints[1]
  /\ pc = "idle"
  /\ req = NoReq
  /\ values = << >>
  /\ pend = << >>
  /\ resp = NoResp
  /\ other = NoOther
  /\ calc = NoCalc
  /\ dash = ClientStart

\* "Initial data fetch"
Mount ==
  /\ ~dash.client.mounted
  /\ dash' = fetchActiveJobs(dash, "none")
  /\ UNCHANGED <<rows, now, pc, req, values, pend, resp, other, calc>>

\* a tick of the smart polling interval
CheckVersion ==
  /\ dash.client.mounted
  /\ ~dash.client.versionCheckFailed
  /\ dash' = checkDataVersion(dash, "none", "none")
  /\ UNCHANGED <<rows, now, pc, req, values, pend, resp, other, calc>>

\* a tick of the smart polling interval during which a read fails
CheckVersionFault ==
  /\ dash.client.mounted
  /\ ~dash.client.versionCheckFailed
  /\ \E faults \in {<<"open", "none">>, <<"none", "open">>} :
        dash' = checkDataVersion(dash, faults[1], faults[2])
  /\ UNCHANGED <<rows, now, pc, req, values, pend, resp, other, calc>>

\* a tick of the fallback polling interval
FallbackFetch ==
  /\ dash.client.mounted
  /\ dash.client.versionCheckFailed
  /\ dash' = fetchActiveJobs(dash, "none")
  /\ UNCHANGED <<rows, now, pc, req, values, pend, resp, other, calc>>

NextClient ==
  \/ DashTick
  \/ EditSheet
  \/ Invalidate
  \/ Mount
  \/ CheckVersion
  \/ CheckVersionFault
  \/ FallbackFetch

SpecClient == InitClient /\ [][NextClient]_vars

\* ------------------------------------------------------------------------
\* The fingerprint on its own: two contents of the sheet with the same
\* number of rows.
\* ------------------------------------------------------------------------
Sheets ==
  UNION {[1..n -> {SummaryRow(status, machine) :
                      status \in DashStatuses, machine \in DashMachines}] :
            n \in 1..MaxDashRows}

FingerprintInput(first, second) ==
  [called |-> {}, first |-> first, second |-> second,
   hashOfFirst |-> 0, hashOfSecond |-> 0]

InitFingerprint ==
  /\ rows = << >>
  /\ now = TimePoints[1]
  /\ pc = "idle"
  /\ req = NoReq
  /\ values = << >>
  /\ pend = << >>
  /\ resp = NoResp
  /\ other = NoOther
  /\ dash = NoDash
  /\ \E first \in Sheets, second \in Sheets :
        /\ Len(first) = Len(second)
        /\ calc = FingerprintInput(first, second)

CallQuickHash ==
  /\ "quickHash" \notin calc.called
  /\ calc' = [calc EXCEPT
                !.called = @ \cup {"quickHash"},
                !.hashOfFirst = Version(calc.first, 0, FALSE).dataHash,
                !.hashOfSecond = Version(calc.second, 0, FALSE).dataHash]
  /\ UNCHANGED <<rows, now, pc, req, values, pend, resp, other, dash>>

NextFingerprint == CallQuickHash

SpecFingerprint == InitFingerprint /\ [][NextFingerprint]_vars

\* ------------------------------------------------------------------------
\* Properties
\* ------------------------------------------------------------------------
\* the normalized identity key of a row or of a command document
KeyOf(r) ==
  <<normalizeProjectNo(r.projectNo), normalize(r.partName), normalize(r.processName),
    normalize(r.processNo), normalize(r.stepNo), normalize(r.machineNo)>>

\* an execution has made its writes and holds its response
Answered(op) == pc = "done" /\ req.op = op

\* the rows an execution has appended or changed
Touched == {i \in 1..Len(rows) : i > Len(values) \/ rows[i] # values[i]}

\* C1: in every reachable state, no two rows with status OPEN have the same
\* normalized identity key (projectNo, partName, processName, processNo,
\* stepNo, machineNo).
C1_OneOpenRowPerKey ==
  \A i, j \in 1..Len(rows) :
     (i # j /\ rows[i].status = "OPEN" /\ rows[j].status = "OPEN")
        => KeyOf(rows[i]) # KeyOf(rows[j])

\* C2: CLOSE is terminal - no step of a command or of the sweep changes any
\* field of a row whose status is CLOSE.
C2_CloseIsTerminal ==
  [][\A i \in 1..Len(rows) :
        rows[i].status = "CLOSE" => (i <= Len(rows') /\ rows'[i] = rows[i])]_vars

\* a duration cell shows the given milliseconds (a blank cell shows none)
ShowsDuration(cell, ms) ==
  cell = msToHHMMSSWithPlaceholder(ms) \/ (cell = EmptyCell /\ ms = 0)

\* the derived cells of a row are what its two persisted session lists give
DerivedFieldsCurrent(row) ==
  /\ row.pauseSummary =
       formatPauseTimesSummary(JSONparse(row.pauseJson), JSONparse(row.otJson))
  /\ ShowsDuration(row.totalDowntime,
       sumPauseTypeMs(JSONparse(row.pauseJson), "DOWNTIME", JSONparse(row.otJson)))
  /\ ShowsDuration(row.totalNormalPause,
       sumPauseTypeMs(JSONparse(row.pauseJson), "PAUSE", JSONparse(row.otJson)))
  /\ ShowsDuration(row.totalPauseTime,
       calculateTotalPauseTimeWithOTSessions(JSONparse(row.pauseJson),
                                             JSONparse(row.otJson)))
  /\ row.reasonSummary = formatReasonSummary(JSONparse(row.pauseJson))
  /\ row.otSummary = formatOtTimesSummary(JSONparse(row.otJson))
  /\ ShowsDuration(row.otDuration, TotalOtMs(JSONparse(row.otJson)))

\* C3: after every successful command and after every sweep run, each derived
\* field of a row the execution wrote (pause summary, totalDowntime,
\* totalNormalPause, totalPauseTime, reason summary, OT summary, OT duration)
\* equals its recomputation from the pause and OT session lists the row holds.
C3_DerivedFieldsRecomputed ==
  (pc = "done" /\ (resp = OkResp \/ req.op = "SWEEP"))
     => \A i \in Touched : DerivedFieldsCurrent(rows[i])

\* C4: while a command is making its writes, every row is either as the
\* command read it or as the command leaves it - the status, the session
\* lists and the derived fields of a row change in one write.
C4_OneRangeWrite ==
  (pc = "writing" /\ req.op # "SWEEP")
     => \A i \in 1..Len(values) :
           rows[i] = values[i] \/ rows[i] = ApplyAll(rows, pend)[i]

\* the OPEN rows of the snapshot that have the key of the command document
OpenWithKey ==
  {i \in 1..Len(values) :
     values[i].status = "OPEN" /\ KeyOf(values[i]) = KeyOf(req.data)}

\* C5: a create whose normalized identity key equals that of a row with
\* status OPEN is rejected and appends nothing; when no row with that key is
\* OPEN (the earlier one has been closed) the create succeeds and appends one
\* new row with status OPEN and that key.
C5_DuplicateOpenGuard ==
  Answered("CREATE") =>
     IF OpenWithKey # {}
     THEN resp.status = "ERROR" /\ rows = values
     ELSE /\ resp = OkResp
          /\ Len(rows) = Len(values) + 1
          /\ SubSeq(rows, 1, Len(values)) = values
          /\ rows[Len(rows)].status = "OPEN"
          /\ KeyOf(rows[Len(rows)]) = KeyOf(req.data)

\* C6: in every reachable state, each row has at most one OT session whose
\* end is absent.
C6_OneOpenOtSessionPerRow ==
  \A i \in 1..Len(rows) :
     Cardinality({k \in 1..Len(JSONparse(rows[i].otJson)) :
                    IsOpenOt(JSONparse(rows[i].otJson)[k])}) <= 1

\* C7: in every reachable state, each row has at most one pause session whose
\* resume time is absent.
C7_OneOpenPausePerRow ==
  \A i \in 1..Len(rows) :
     Cardinality({k \in 1..Len(JSONparse(rows[i].pauseJson)) :
                    IsOpenPause(JSONparse(rows[i].pauseJson)[k])}) <= 1

\* C8: a command that is answered with a validation or not-found error (no
\* write of its own has failed) leaves every row of the Row Store as it was
\* when the command read it.
C8_RejectionWritesNothing ==
  (pc = "done" /\ resp.status = "ERROR" /\ ~req.failed) => rows = values

\* a close is rejected because the job is paused
C8_CloseOfPausedJobRejected ==
  /\ Answered("CLOSE")
  /\ resp = ErrorResp("CLOSE: job is paused, continue first")
  /\ \E i \in 1..Len(values) : values[i].status = "PAUSE"

\* C9: a command one of whose Row Store writes failed is answered with
\* status ERROR, never with status OK.
C9_FailedWriteAnswersError ==
  (pc = "done" /\ req.op # "SWEEP" /\ req.failed) => resp.status = "ERROR"

\* the rows of the snapshot in OPEN or OT that have the key of the command
\* document
PauseTargets ==
  {i \in 1..Len(values) :
     values[i].status \in {"OPEN", "OT"} /\ KeyOf(values[i]) = KeyOf(req.data)}

\* the pause session a pause command logs on a row
LoggedPause(row) ==
  [type |-> IF req.data.pauseType = "" THEN "PAUSE" ELSE req.data.pauseType,
   reason |-> req.data.pauseReason,
   pause |-> now, pause_local |-> formatLocalTimestamp(now),
   resume |-> NoTime, resume_local |-> NoLocal,
   wasInOT |-> (row.status = "OT")]

\* C10: a pause is rejected, changing nothing, when no row with the key of
\* the command is in OPEN or OT; otherwise it succeeds on one such row, to
\* whose pause list it appends exactly one open session with the given type
\* and reason and wasInOT = (the status was OT), and whose status it sets to
\* PAUSE.
C10_PauseOnOpenOrOt ==
  Answered("PAUSE") =>
     IF PauseTargets = {}
     THEN resp.status = "ERROR" /\ rows = values
     ELSE /\ resp = OkResp
          /\ Len(rows) = Len(values)
          /\ \E i \in PauseTargets :
                /\ \A j \in 1..Len(rows) : j # i => rows[j] = values[j]
                /\ rows[i].status = "PAUSE"
                /\ JSONparse(rows[i].pauseJson)
                     = Append(JSONparse(values[i].pauseJson), LoggedPause(values[i]))
                /\ JSONparse(rows[i].otJson) = JSONparse(values[i].otJson)

\* the rows of the snapshot that have the identity key of the command document
\* and one of the given statuses
TargetsIn(statuses) ==
  {i \in 1..Len(values) :
     values[i].status \in statuses /\ KeyOf(values[i]) = KeyOf(req.data)}

Latest(indices) == CHOOSE j \in indices : \A k \in indices : k <= j

\* the command changed row i and no other row
OnlyRowChanged(i) ==
  /\ Len(rows) = Len(values)
  /\ \A k \in 1..Len(values) : k # i => rows[k] = values[k]

OpenPauses(pauseTimes) == {j \in 1..Len(pauseTimes) : pauseTimes[j].resume = NoTime}

OpenOts(otTimes) == {j \in 1..Len(otTimes) : otTimes[j].end = NoTime}

\* [17:30, 22:30) of the day of t
InOvertimeWindow(t) ==
  /\ t % MsPerDay >= HM(OT_HOURS.START.h, OT_HOURS.START.m)
  /\ t % MsPerDay < HM(OT_HOURS.END.h, OT_HOURS.END.m)

\* C11: a continue for a job step that has a row in PAUSE is rejected, writing
\* nothing, when that row has no open pause session; otherwise it is answered
\* OK, fills resume = now on the most recent open pause session of that row and
\* on no other session, and sets the status to OT exactly when the row has an
\* open OT session and now is within the overtime window, else to OPEN.
C11_ContinueResumesLatestPause ==
  (Answered("CONTINUE") /\ TargetsIn({"PAUSE"}) # {}) =>
     \E i \in TargetsIn({"PAUSE"}) :
        LET old == JSONparse(values[i].pauseJson)
        IN IF OpenPauses(old) = {}
           THEN resp.status = "ERROR" /\ rows = values
           ELSE /\ resp = OkResp
                /\ OnlyRowChanged(i)
                /\ JSONparse(rows[i].pauseJson) =
                     [old EXCEPT ![Latest(OpenPauses(old))].resume = now,
                                 ![Latest(OpenPauses(old))].resume_local =
                                    formatLocalTimestamp(now)]
                /\ rows[i].otJson = values[i].otJson
                /\ rows[i].status =
                     IF OpenOts(JSONparse(values[i].otJson)) # {} /\ InOvertimeWindow(now)
                     THEN "OT" ELSE "OPEN"

\* the list start-overtime leaves behind: the old sessions, open ones possibly
\* closed, followed by one open session that starts at t
AppendsOpenOt(old, new, t) ==
  /\ Len(new) = Len(old) + 1
  /\ new[Len(new)].start = t
  /\ new[Len(new)].end = NoTime
  /\ \A k \in 1..Len(old) :
        new[k] = old[k] \/ (old[k].end = NoTime /\ new[k].start = old[k].start)

\* C12: start-overtime is answered OK exactly when a row with the identity key
\* of the command is OPEN or OT and now lies in [17:30, 22:30); it then appends
\* one open OT session to that row and sets its status to OT; otherwise it is
\* answered ERROR and the Row Store is unchanged.
C12_StartOtOnlyInWindow ==
  Answered("START_OT") =>
     IF TargetsIn({"OPEN", "OT"}) # {} /\ InOvertimeWindow(now)
     THEN /\ resp = OkResp
          /\ \E i \in TargetsIn({"OPEN", "OT"}) :
                /\ OnlyRowChanged(i)
                /\ rows[i].status = "OT"
                /\ rows[i].pauseJson = values[i].pauseJson
                /\ AppendsOpenOt(JSONparse(values[i].otJson),
                                 JSONparse(rows[i].otJson), now)
     ELSE resp.status = "ERROR" /\ rows = values

\* the sum of the overtime of the closed sessions of a list
ClosedOtMs(otTimes) ==
  SumSeq([k \in 1..Len(otTimes) |->
            IF otTimes[k].end # NoTime
            THEN calculateOtTimeMs(otTimes[k].start, otTimes[k].end) ELSE 0])

\* C13: a stop-overtime for a job step that has a row in OT or PAUSE is
\* rejected, writing nothing, when that row has no open OT session; otherwise
\* it is answered OK, sets end = now on the most recent open OT session of that
\* row, leaves the status PAUSE if it was PAUSE and else sets it to OPEN, and
\* writes the overtime duration recomputed from the new list.
C13_StopOtClosesLatestSession ==
  (Answered("STOP_OT") /\ TargetsIn({"OT", "PAUSE"}) # {}) =>
     \E i \in TargetsIn({"OT", "PAUSE"}) :
        LET old == JSONparse(values[i].otJson)
        IN IF OpenOts(old) = {}
           THEN resp.status = "ERROR" /\ rows = values
           ELSE /\ resp = OkResp
                /\ OnlyRowChanged(i)
                /\ JSONparse(rows[i].otJson) =
                     [old EXCEPT ![Latest(OpenOts(old))].end = now,
                                 ![Latest(OpenOts(old))].end_local =
                                    formatLocalTimestamp(now)]
                /\ rows[i].pauseJson = values[i].pauseJson
                /\ rows[i].status = (IF values[i].status = "PAUSE" THEN "PAUSE" ELSE "OPEN")
                /\ ShowsDuration(rows[i].otDuration, ClosedOtMs(JSONparse(rows[i].otJson)))

\* the rows of the job step of the command that are not closed
LiveRows == TargetsIn({"OPEN", "OT", "PAUSE"})

\* C14: a close whose job step (the most recent row with its identity key
\* that is not closed) is in PAUSE is answered with the 'continue first' error
\* and changes nothing, so the row stays PAUSE with its open pause session;
\* and no step takes a row from PAUSE to CLOSE.
C14_CloseOfPausedJobIsRejected ==
  /\ [](  (Answered("CLOSE") /\ LiveRows # {}
             /\ values[Latest(LiveRows)].status = "PAUSE")
          => (resp = ErrorResp("CLOSE: job is paused, continue first") /\ rows = values))
  /\ [][\A i \in 1..Len(rows) :
          rows[i].status = "PAUSE" => rows'[i].status # "CLOSE"]_vars

\* the pause time of the completed sessions of a list, each counted over
\* working hours and over its overlap with the closed OT sessions
CompletedPauseMs(pauseTimes, otTimes) ==
  SumSeq([k \in 1..Len(pauseTimes) |->
            IF pauseTimes[k].resume # NoTime
            THEN calculatePauseTimeWithOTSessions(pauseTimes[k].pause,
                                                  pauseTimes[k].resume, otTimes)
            ELSE 0])

\* max(0, working time from start to end + overtime of the closed sessions
\*        - total pause time) of a stored row closed at endTime
ExpectedProcessMs(row, endTime) ==
  Max2(0, calculateWorkingTimeMs(row.startTime, endTime,
                                 IF normalize(row.processName) = normalize(StrMachineSetting)
                                 THEN MACHINE_SETTING_WORK_END ELSE Undefined)
          + ClosedOtMs(JSONparse(row.otJson))
          - CompletedPauseMs(JSONparse(row.pauseJson), JSONparse(row.otJson)))

\* row was created at Monday 09:00 and holds one pause session, a DOWNTIME
\* from 10:00 to 10:30, and the clock reads 11:00
MorningScenario(row) ==
  /\ row.startTime = HM(9, 0)
  /\ now = HM(11, 0)
  /\ Len(JSONparse(row.pauseJson)) = 1
  /\ JSONparse(row.pauseJson)[1].type = "DOWNTIME"
  /\ JSONparse(row.pauseJson)[1].pause = HM(10, 0)
  /\ JSONparse(row.pauseJson)[1].resume = HM(10, 30)

\* the row an accepted close has written
ClosedBy(i) ==
  /\ OnlyRowChanged(i)
  /\ values[i].status \in {"OPEN", "OT"}
  /\ rows[i].status = "CLOSE"

\* C15: an accepted close sets the status of the row it acts on from OPEN or
\* OT to CLOSE and writes process time = max(0, working time(start, end) +
\* overtime of the closed OT sessions - total pause time); for a job created
\* Monday 09:00, paused (DOWNTIME) 10:00-10:30 and closed at 11:00 the process
\* time is 1:30:00 and the total downtime 0:30:00.
C15_CloseWritesProcessTime ==
  (Answered("CLOSE") /\ resp = OkResp) =>
     \E i \in 1..Len(values) :
        /\ ClosedBy(i)
        /\ ShowsDuration(rows[i].processTime, ExpectedProcessMs(rows[i], now))
        /\ MorningScenario(rows[i]) =>
              /\ rows[i].processTime = <<1, 30, 0>>
              /\ rows[i].totalDowntime = <<0, 30, 0>>

\* C15 as stated: the same, with process time 1:00:00 in the Monday scenario
C15_ProcessTimeOneHour ==
  (Answered("CLOSE") /\ resp = OkResp) =>
     \E i \in 1..Len(values) :
        /\ ClosedBy(i)
        /\ ShowsDuration(rows[i].processTime, ExpectedProcessMs(rows[i], now))
        /\ MorningScenario(rows[i]) =>
              /\ rows[i].processTime = <<1, 0, 0>>
              /\ rows[i].totalDowntime = <<0, 30, 0>>

\* the Monday scenario has been closed, with fg = 5
C15_MorningJobClosed ==
  /\ Answered("CLOSE")
  /\ resp = OkResp
  /\ \E i \in 1..Len(values) :
        ClosedBy(i) /\ MorningScenario(rows[i]) /\ rows[i].fg = <<5>>

\* C16: after an accepted close, the row it closed has no OT session without
\* an end, whether the row was OPEN or OT and however many open sessions it had.
C16_CloseLeavesNoOpenOtSession ==
  (Answered("CLOSE") /\ resp = OkResp) =>
     \A i \in Touched : OpenOts(JSONparse(rows[i].otJson)) = {}

\* a run of the daily sweep has made its last write
Swept == pc = "done" /\ req.op = "SWEEP"

\* 22:30 of the calendar day of t
CutoffOfDay(t) == (t \div MsPerDay) * MsPerDay + HM(22, 30)

\* what the sweep is to leave of one OT session
SweptSession(before, after) ==
  IF before.end = NoTime
  THEN /\ after.start = before.start
       /\ after.end = CutoffOfDay(before.start)
       /\ after.autoStopped = TRUE
  ELSE after = before

\* C17: when a run of the daily sweep after the 22:30 cutoff has finished,
\* every OT session that was open has end = 22:30 of the day it started and
\* autoStopped = TRUE, every other session is as it was, a row that was OT is
\* OPEN and every other row has the status it had.
C17_SweepClosesOpenOtSessions ==
  Swept =>
     /\ Len(rows) = Len(values)
     /\ \A i \in 1..Len(values) :
           /\ Len(JSONparse(rows[i].otJson)) = Len(JSONparse(values[i].otJson))
           /\ \A k \in 1..Len(JSONparse(values[i].otJson)) :
                 SweptSession(JSONparse(values[i].otJson)[k], JSONparse(rows[i].otJson)[k])
           /\ rows[i].status = (IF values[i].status = "OT" THEN "OPEN" ELSE values[i].status)

\* the sweep has closed the open session of a row that was OT, and left a
\* row of another status with that status
C17_SweptAnOtRow ==
  /\ Swept
  /\ \E i \in 1..Len(values) :
        /\ values[i].status = "OT"
        /\ OpenOts(JSONparse(values[i].otJson)) # {}
        /\ rows[i].status = "OPEN"
  /\ \E i \in 1..Len(values) : values[i].status # "OT"

\* C18: when a run of the daily sweep has finished, a second run at once
\* would leave the Row Store as it is; and a run over a Row Store without an
\* open OT session has changed no row.
C18_SweepIsIdempotent ==
  Swept =>
     /\ ApplyAll(rows, autoStopAllOTJobs(rows, now)) = rows
     /\ (\A i \in 1..Len(values) : OpenOts(JSONparse(values[i].otJson)) = {})
           => rows = values

\* a sweep has run over a Row Store with a closed and no open OT session,
\* after an earlier sweep had closed a session
C18_SweptTwice ==
  /\ Swept
  /\ rows = values
  /\ \E i \in 1..Len(values) :
        \E k \in 1..Len(JSONparse(values[i].otJson)) :
           JSONparse(values[i].otJson)[k].autoStopped

\* the calls of calculateWorkingTimeMs that have been made: <<start, end, result>>
WorkingCalls ==
  IF "working" \in calc.called
  THEN {<<calc.start, calc.end, calc.working.whole>>,
        <<calc.start, calc.mid, calc.working.first>>,
        <<calc.mid, calc.end, calc.working.second>>,
        <<calc.end, calc.start, calc.working.reverse>>}
  ELSE {}

\* the calls of calculateOtTimeMs that have been made
OtCalls ==
  IF "ot" \in calc.called
  THEN {<<calc.start, calc.end, calc.ot.whole>>,
        <<calc.start, calc.mid, calc.ot.first>>,
        <<calc.mid, calc.end, calc.ot.second>>,
        <<calc.end, calc.start, calc.ot.reverse>>}
  ELSE {}

\* [start, end] lies on one day, between the times of day from and to
InsideOf(start, end, from, to) ==
  /\ start <= end
  /\ start \div MsPerDay = end \div MsPerDay
  /\ from <= start % MsPerDay
  /\ end % MsPerDay <= to

\* Monday is day 0, so Sunday is day 6 of the week
OnSunday(t) == (t \div MsPerDay) % 7 = 6

InsideWorkingWindow(start, end) ==
  /\ ~OnSunday(start)
  /\ \/ InsideOf(start, end, HM(8, 30), HM(12, 0))
     \/ InsideOf(start, end, HM(13, 0), HM(15, 0))
     \/ InsideOf(start, end, HM(15, 10), HM(16, 45))

OutsideWorkingTime(start, end) ==
  \/ InsideOf(start, end, HM(12, 0), HM(13, 0))
  \/ InsideOf(start, end, HM(15, 0), HM(15, 10))
  \/ (OnSunday(start) /\ InsideOf(start, end, 0, MsPerDay))

\* C19: workingTimeMs is additive: for a <= b <= c and one customWorkEnd,
\* workingTimeMs(a, c) = workingTimeMs(a, b) + workingTimeMs(b, c).
C19_WorkingTimeIsAdditive ==
  "working" \in calc.called =>
     calc.working.whole = calc.working.first + calc.working.second

\* an interval from a Saturday over the Sunday into a later working day, cut
\* inside a working window, with working time on both sides of the cut
C19_SplitAcrossWeekend ==
  /\ "working" \in calc.called
  /\ calc.end \div MsPerDay > calc.start \div MsPerDay + 1
  /\ InsideWorkingWindow(calc.mid, calc.mid)
  /\ calc.start < calc.mid
  /\ calc.mid < calc.end
  /\ calc.working.first > 0
  /\ calc.working.second > 0

\* C20: for an interval inside one working window (08:30-12:00, 13:00-15:00,
\* 15:10-16:45) of a Monday to Saturday workingTimeMs is end - start; for an
\* interval inside lunch, the break or a Sunday, and for end <= start, it is
\* 0; and neither workingTimeMs nor overtimeTimeMs is ever negative, both
\* being 0 for end <= start.
C20_WorkingTimeInsideAndOutsideWindows ==
  /\ \A call \in WorkingCalls :
        /\ InsideWorkingWindow(call[1], call[2]) => call[3] = call[2] - call[1]
        /\ OutsideWorkingTime(call[1], call[2]) => call[3] = 0
        /\ call[2] <= call[1] => call[3] = 0
        /\ call[3] >= 0
  /\ \A call \in OtCalls :
        /\ call[2] <= call[1] => call[3] = 0
        /\ call[3] >= 0

\* the function has been called on an interval of positive length inside a
\* working window and on one of positive length inside lunch
C20_InsideWindowThenLunch ==
  /\ "working" \in calc.called
  /\ \E call \in WorkingCalls :
        InsideWorkingWindow(call[1], call[2]) /\ call[3] > 0
  /\ \E call \in WorkingCalls :
        call[1] < call[2] /\ InsideOf(call[1], call[2], HM(12, 0), HM(13, 0))

\* the closed sessions of the list that share time with the pause
Intersected(pauseStart, pauseEnd, otSessions) ==
  {k \in 1..Len(otSessions) :
      /\ otSessions[k].end # NoTime
      /\ Min2(pauseEnd, otSessions[k].end) > Max2(pauseStart, otSessions[k].start)}

\* the part of [from, to], on one day, that lies in the 17:30-22:30 band
BandMs(from, to) ==
  LET lo == Max2(from % MsPerDay, HM(17, 30))
      hi == Min2(to % MsPerDay, HM(22, 30))
  IN IF hi > lo THEN hi - lo ELSE 0

\* the overtime of the portions of the pause that lie in a closed session:
\* every stretch between two neighbouring instants counts once when the
\* pause and at least one closed session cover it
IntersectedOtMs(pauseStart, pauseEnd, otSessions) ==
  SumSeq([k \in 1..(Len(EveningTimes) - 1) |->
            IF /\ pauseStart <= EveningTimes[k]
               /\ EveningTimes[k + 1] <= pauseEnd
               /\ \E j \in 1..Len(otSessions) :
                     /\ otSessions[j].end # NoTime
                     /\ otSessions[j].start <= EveningTimes[k]
                     /\ EveningTimes[k + 1] <= otSessions[j].end
            THEN BandMs(EveningTimes[k], EveningTimes[k + 1])
            ELSE 0])

\* C21: the duration of a pause that intersects no logged OT session is its
\* working-hours overlap only, also when the pause overlaps 17:30-22:30; when
\* the pause intersects logged OT sessions, the overtime of the intersected
\* portions of the pause, and nothing else, is added.
C21_PauseCountsIntersectedOvertimeOnly ==
  "pause" \in calc.called =>
     /\ Intersected(calc.pauseStart, calc.pauseEnd, calc.otSessions) = {}
           => calc.pauseMs = calculateWorkingTimeMs(calc.pauseStart, calc.pauseEnd, Undefined)
     /\ calc.pauseMs = calculateWorkingTimeMs(calc.pauseStart, calc.pauseEnd, Undefined)
                       + IntersectedOtMs(calc.pauseStart, calc.pauseEnd, calc.otSessions)

\* C22: when a pause or a continue has been answered OK, the totalPauseTime
\* the row holds is the sum of the durations of exactly the completed
\* sessions of the pause list the row holds (an open session adds nothing),
\* after any number of pause/continue cycles.
C22_TotalPauseIsSumOfCompletedSessions ==
  ((Answered("PAUSE") \/ Answered("CONTINUE")) /\ resp = OkResp) =>
     \A i \in Touched :
        ShowsDuration(rows[i].totalPauseTime,
                      CompletedPauseMs(JSONparse(rows[i].pauseJson),
                                       JSONparse(rows[i].otJson)))

\* a second pause/continue cycle has ended on a row whose first cycle took
\* working time
C22_SecondCycleCompleted ==
  /\ Answered("CONTINUE")
  /\ resp = OkResp
  /\ \E i \in Touched :
        /\ Len(JSONparse(rows[i].pauseJson)) >= 2
        /\ \A k \in 1..Len(JSONparse(rows[i].pauseJson)) :
              JSONparse(rows[i].pauseJson)[k].resume # NoTime
        /\ calculatePauseTimeWithOTSessions(JSONparse(rows[i].pauseJson)[1].pause,
                                            JSONparse(rows[i].pauseJson)[1].resume,
                                            JSONparse(rows[i].otJson)) > 0

\* a string without the zeros it begins with
RECURSIVE WithoutLeadingZeros(_)
WithoutLeadingZeros(s) ==
  IF s = << >> THEN << >>
  ELSE IF s[1] = "0" THEN WithoutLeadingZeros(SubSeq(s, 2, Len(s)))
  ELSE s

\* C28: for two project numbers whose normalize() results differ only by
\* leading zeros ("007", " 007", "7"), normalizeProjectNo gives the same
\* result.
C28_LeadingZerosAreIgnored ==
  ("projectNo" \in calc.called
     /\ WithoutLeadingZeros(normalize(calc.s)) = WithoutLeadingZeros(normalize(calc.t)))
  => calc.projectNoS = calc.projectNoT

\* C29: when a create, pause, continue or close has been answered OK, the
\* same command submitted again at once is rejected and writes nothing, so
\* the Row Store stays as the single application left it.
C29_RetryIsRejected ==
  (pc = "done" /\ resp = OkResp /\ req.op \in {"CREATE", "PAUSE", "CONTINUE", "CLOSE"})
     => /\ submitLog(rows, req.data, now).err # ""
        /\ submitLog(rows, req.data, now).writes = << >>

\* C30: logNo values are unique and strictly increasing in creation order:
\* of two rows of the sheet the later one has the greater logNo, also when
\* creates run at the same time.
C30_LogNoStrictlyIncreasing ==
  \A i \in 1..Len(rows) :
     \A j \in 1..Len(rows) : i < j => rows[i].logNo < rows[j].logNo

\* C23: for two contents of the sheet with the same number of rows that
\* differ in the status or the machine of one of the first 10 data rows,
\* getVersion computes different fingerprints (dataHash).
C23_FingerprintTellsContentsApart ==
  ("quickHash" \in calc.called
     /\ \E i \in 1..Len(calc.first) : i <= 10 /\ calc.first[i] # calc.second[i])
  => calc.hashOfFirst # calc.hashOfSecond

\* C24: two getVersion responses whose versions were read from the same
\* sheet data carry the same fingerprint (dataHash and rowCount), whether
\* computed or served from the cache and whenever they are made.
C24_FingerprintStable ==
  (/\ dash.resp.kind = "getVersion"
   /\ dash.resp.success
   /\ dash.prevVersion.set
   /\ dash.prevVersion.readSeq = dash.lastVersion.readSeq)
  => /\ dash.lastVersion.dataHash = dash.prevVersion.dataHash
     /\ dash.lastVersion.rowCount = dash.prevVersion.rowCount

\* the invalidation flag is set and not older than 30 seconds
SignalPending ==
  /\ dash.dashboardInvalidated.set
  /\ dash.now - dash.dashboardInvalidated.timestamp < 30 * MsPerSecond

\* C25: the first getVersion after invalidateDashboardCache has run is not
\* served from the version cache and carries the fingerprint of the sheet as
\* it is (as long as the sheet is not edited again); after it the flag
\* forces no further bypass and the version cache holds the fingerprint
\* just computed.
C25_InvalidationForcesFreshVersion ==
  (/\ dash.resp.kind = "getVersion"
   /\ dash.resp.signalled
   /\ dash.resp.at = dash.now
   /\ dash.resp.readSeq = dash.edits)
  => /\ ~dash.resp.cached
     /\ dash.resp.success
     /\ dash.resp.version.dataHash = Version(dash.sheet, dash.now, FALSE).dataHash
     /\ dash.resp.version.rowCount = Len(dash.sheet) + 1
     /\ (dash.signalled \/ ~SignalPending)
     /\ (dash.signalled \/ (dash.dashboardVersionCache.set
                            /\ dash.dashboardVersionCache.version = dash.resp.version))

\* a getVersion was served from the cache, the sheet was edited and the
\* cache invalidated, and the next getVersion reports another fingerprint
\* while the cache it bypassed would still have been fresh
C25_BypassedAFreshCache ==
  /\ dash.resp.kind = "getVersion"
  /\ dash.resp.signalled
  /\ ~dash.signalled
  /\ dash.resp.at = dash.now
  /\ dash.prevVersion.set
  /\ dash.prevVersion.dataHash # dash.lastVersion.dataHash
  /\ dash.edits > 0

\* C26: no response of getActiveJobs or getVersion carries data that was
\* read from the sheet 10 or more seconds before the response was made.
C26_StalenessBelowTenSeconds ==
  (dash.resp.kind # "none" /\ dash.resp.success)
  => dash.resp.at - dash.resp.readAt < 10 * MsPerSecond

\* C27: when an execution of the read surface hits a read error, it answers
\* success = true with an empty result set, and the client's getActiveJobs
\* reports success.
C27_ReadErrorsAnswerEmptySuccess ==
  dash.resp.fault # "none"
  => /\ dash.resp.success
     /\ dash.resp.data = << >>
     /\ (dash.resp.kind = "getActiveJobs" => ClientActiveJobs(dash.resp).success)

\* the command a document asks for: the one its action names, else the one
\* its status names
CommandOf(data) ==
  IF data.action \in {"PAUSE", "CONTINUE", "START_OT", "STOP_OT", "CLOSE"}
  THEN data.action
  ELSE IF data.status = "OPEN" THEN "CREATE"
  ELSE IF data.status \in {"PAUSE", "CLOSE"} THEN data.status
  ELSE "NONE"

\* C31: a command document whose action is PAUSE, CONTINUE, START_OT,
\* STOP_OT or CLOSE, or whose status is OPEN, PAUSE or CLOSE, takes the
\* branch of that command; doPost answers OK only when the command has
\* changed the Row Store, and ERROR otherwise.
C31_DispatchedAndAnsweredByEffect ==
  (pc = "done" /\ req.op # "SWEEP" /\ CommandOf(req.data) # "NONE")
  => /\ req.op = CommandOf(req.data)
     /\ resp.status \in {"OK", "ERROR"}
     /\ resp.status = "OK" => Touched # {}

\* C32: pause, continue, start-overtime, stop-overtime and close change only
\* rows whose identity key (projectNo, partName, processName, processNo,
\* stepNo, machineNo) equals the command's under the key equality of the
\* duplicate-open guard; a row that differs in partName is never changed.
C32_CommandsChangeOnlyRowsOfTheirKey ==
  (pc = "done" /\ req.op \in {"PAUSE", "CONTINUE", "START_OT", "STOP_OT", "CLOSE"})
  => \A i \in Touched : i <= Len(values) /\ SameKeyAsGuard(values[i], req.data)

\* a pause log after a step: no session is gone, a completed session is as
\* it was, and of an open one at most the resume has been filled
PauseLogKept(old, new) ==
  /\ Len(new) >= Len(old)
  /\ \A k \in 1..Len(old) :
        IF IsOpenPause(old[k])
        THEN [new[k] EXCEPT !.resume = NoTime, !.resume_local = NoLocal] = old[k]
        ELSE new[k] = old[k]

\* an OT log after a step: no session is gone, a closed session is as it
\* was, and an open one keeps its start
OtLogKept(old, new) ==
  /\ Len(new) >= Len(old)
  /\ \A k \in 1..Len(old) :
        IF IsOpenOt(old[k])
        THEN new[k].start = old[k].start /\ new[k].start_local = old[k].start_local
        ELSE new[k] = old[k]

\* C33: the session logs are append-only - no step of a command or of the
\* sweep removes a persisted pause or OT session or changes a completed
\* one; the only change in place is filling the resume / end of a session
\* that was open.
C33_SessionLogsAppendOnly ==
  [][\A i \in 1..Len(rows) :
        /\ i <= Len(rows')
        /\ PauseLogKept(JSONparse(rows[i].pauseJson), JSONparse(rows'[i].pauseJson))
        /\ OtLogKept(JSONparse(rows[i].otJson), JSONparse(rows'[i].otJson))]_vars

\* a write computed from `snapshot` finds a cell it replaces changed since
\* the snapshot was read, and not by an earlier write of the same request
\* (for an appended row: rows appended since)
StaleWrite(w, snapshot) ==
  IF w.kind = "append" THEN Len(rows) # Len(snapshot)
  ELSE \E f \in w.fields : rows[w.row][f] \notin {snapshot[w.row][f], w.src[f]}

\* C34: when two requests overlap, no setValues / appendRow call of either
\* is applied over cells that have changed since that request read the
\* sheet, so that no persisted update is lost and the row is left as a
\* serial execution of the two would leave it.
C34_NoWriteOverChangedRow ==
  [][/\ (pc = "writing" /\ pend # << >> /\ pend' = Tail(pend))
          => ~StaleWrite(Head(pend), values)
     /\ (other.pend # << >> /\ other' # other)
          => ~StaleWrite(Head(other.pend), other.values)]_vars

\* C35: in every reachable state, a row's status is PAUSE if and only if
\* the row has an open pause session (one without a resume).
C35_PausedIffOpenPauseSession ==
  \A i \in 1..Len(rows) :
     rows[i].status = "PAUSE"
       <=> \E k \in 1..Len(JSONparse(rows[i].pauseJson)) :
              IsOpenPause(JSONparse(rows[i].pauseJson)[k])

\* C36: in every reachable state, a row whose status is OT has at least one
\* open OT session (one without an end).
C36_OtRowHasOpenOtSession ==
  \A i \in 1..Len(rows) :
     rows[i].status = "OT"
       => \E k \in 1..Len(JSONparse(rows[i].otJson)) :
             IsOpenOt(JSONparse(rows[i].otJson)[k])

\* C37: every closed OT session ends no earlier than it started and no
\* later than 22:30 of the day on which it started, whichever of
\* stop-overtime, close, the auto-stop inside a command or the sweep closed
\* it, and however late.
C37_ClosedOtSessionEndsByCutoff ==
  \A i \in 1..Len(rows) :
     \A k \in 1..Len(JSONparse(rows[i].otJson)) :
        LET ot == JSONparse(rows[i].otJson)[k]
        IN IsClosedOt(ot) => (ot.start <= ot.end /\ ot.end <= OtEndOf(ot))

\* the milliseconds a duration cell shows ('-' and a blank cell show none)
DurationMs(cell) ==
  IF cell \in {EmptyCell, <<"-">>} THEN 0
  ELSE (cell[1] * 3600 + cell[2] * 60 + cell[3]) * MsPerSecond

\* C38: the process time written by an accepted close never exceeds the
\* time elapsed between the start of the job and the close, whatever the
\* process (a Machine Setting job included) and the recorded pause and OT
\* sessions.
C38_ProcessTimeWithinElapsedTime ==
  (Answered("CLOSE") /\ resp = OkResp) =>
     \A i \in Touched :
        (i <= Len(values) /\ rows[i].status = "CLOSE")
           => DurationMs(rows[i].processTime) <= now - values[i].startTime

\* C39: after every accepted pause, continue and close, the totals of the
\* row written satisfy total pause time = total downtime + total normal
\* pause, whatever pause type the pause commands carried (none counts as
\* PAUSE).
C39_TotalPauseIsDowntimePlusNormalPause ==
  (pc = "done" /\ req.op \in {"PAUSE", "CONTINUE", "CLOSE"} /\ resp = OkResp) =>
     \A i \in Touched :
        DurationMs(rows[i].totalPauseTime)
          = DurationMs(rows[i].totalDowntime) + DurationMs(rows[i].totalNormalPause)

\* C40: the dashboard client never holds, as the fingerprint it has seen,
\* the fingerprint of the sheet as it is now while the job list it displays
\* is not the list of active jobs of that sheet.
C40_SeenFingerprintHasItsJobs ==
  (/\ dash.client.lastDataVersion.set
   /\ dash.client.lastDataVersion.readSeq = dash.edits)
  => dash.client.jobs = ActiveJobs(dash.sheet)

====
